---- MODULE Spec2Model ----
(***************************************************************************)
(* Multi-judge evaluation of sampler-bench                                 *)
(* (src/backend/evaluation/multi_judge.py): the response parser            *)
(* MultiJudgeEvaluator._parse_judgment with its recovery strategies, the   *)
(* parallel dispatcher _get_parallel_judgments and the consensus           *)
(* computation of evaluate_text.                                           *)
(*                                                                         *)
(* A judge response is a sequence of lexemes.  The rendered text is the    *)
(* lexemes joined by one space, except that a backtick lexeme is glued to  *)
(* a brace next to it.  The lexemes and the text each stands for:          *)
(*    "{"  "}"  ","  "tick"  "fence"  "fence_json"   themselves                    *)
(*    "q:K"      the double-quoted key K with its colon   "K":             *)
(*    "b:K"      the bare key K with its colon             K:              *)
(*    "s:K"      the single-quoted key K with its colon   'K':             *)
(*    "7" "8" "15" "0"   JSON numbers                                      *)
(*    "str:abc"  the JSON string "abc";  "str:7" the JSON string "7"       *)
(*    "null"     JSON null;  "[1,2]"  a JSON list                          *)
(*    "7/10" "8/10" "15/10" "0/10"   score mentions in prose               *)
(*    "word"     a word of prose                                           *)
(* No lexeme other than the first six holds a brace or a backtick, so the  *)
(* regular expressions of _extract_json_from_text act on lexemes exactly   *)
(* as they act on the rendered characters.                                 *)
(*                                                                         *)
(* Scores are fixed-point numbers in thousandths: 7.0 is 7000.             *)
(***************************************************************************)
EXTENDS Integers, Sequences, FiniteSets, TLC

\* ------------------------------------------------------------------ bounds
\* Longest run of lexemes put before and after a response body.
MaxWrap == 1
\* Largest number of configured judges with unrestricted per-judge outcomes.
MaxJudges == 3
\* the most samples added to an aggregator
MaxSamples == 6
\* the longest score list given to calculate_confidence_interval
MaxScores == 31
\* the last time the clock shows
MaxClock == 2
\* the most samples of a results file given to judge_benchmark_results
MaxFileSamples == 3
\* the most samples given to judge_batch
MaxBatchSamples == 3

\* ------------------------------------------------------- program constants
\* ThreadPoolExecutor(max_workers=min(len(self.judge_models), 5))
MaxPoolWorkers == 5

Scale == 10 * 100
\* the neutral score 5.0 of a fallback result and of a missing score
NeutralScore == 5 * Scale

\* self.criteria: the criterion catalog
Criteria ==
    {"narrative_structure", "creativity_execution", "character_voice",
     "prose_quality", "engagement"}

\* ------------------------------------------------------------ JSON values
\* A JSON value as json.loads returns it: t is its Python type, n its number,
\* s its string, m its members (a function from keys to values).
JNum(v) == [t |-> "num", n |-> v, s |-> "", m |-> <<>>]
JStr(x) == [t |-> "str", n |-> 0, s |-> x, m |-> <<>>]
JNull == [t |-> "null", n |-> 0, s |-> "", m |-> <<>>]
JList == [t |-> "list", n |-> 0, s |-> "", m |-> <<>>]
JObj(members) == [t |-> "dict", n |-> 0, s |-> "", m |-> members]

NumberLexemes == {"0", "7", "8", "15"}
NumberValue(lex) ==
    CASE lex = "0" -> 0
      [] lex = "7" -> 7 * Scale
      [] lex = "8" -> 8 * Scale
      [] lex = "15" -> 15 * Scale

KeyLexemes ==
    {"q:overall_score", "q:criterion_scores", "q:narrative_structure",
     "q:score", "q:pacing"}
KeyName(lex) ==
    CASE lex = "q:overall_score" -> "overall_score"
      [] lex = "q:criterion_scores" -> "criterion_scores"
      [] lex = "q:narrative_structure" -> "narrative_structure"
      [] lex = "q:score" -> "score"
      [] lex = "q:pacing" -> "pacing"

ScalarLexemes == NumberLexemes \cup {"str:abc", "str:7", "null", "[1,2]"}
ScalarValue(lex) ==
    CASE lex \in NumberLexemes -> JNum(NumberValue(lex))
      [] lex = "str:abc" -> JStr("abc")
      [] lex = "str:7" -> JStr("7")
      [] lex = "null" -> JNull
      [] lex = "[1,2]" -> JList

ParseFailed == [ok |-> FALSE, v |-> JNull, next |-> 0]

RECURSIVE ParseValue(_, _)
RECURSIVE ParseMembers(_, _, _)

\* The members of an object from position i on, after "{" or ",": a key, a
\* value, then "," and more members or the closing "}".  A repeated key keeps
\* its last value, as a Python dict does.
ParseMembers(s, i, members) ==
    IF i + 1 > Len(s) \/ s[i] \notin KeyLexemes THEN ParseFailed
    ELSE LET val == ParseValue(s, i + 1)
             k == KeyName(s[i])
             now == [x \in (DOMAIN members) \cup {k} |->
                        IF x = k THEN val.v ELSE members[x]]
         IN  IF ~val.ok \/ val.next > Len(s) THEN ParseFailed
             ELSE IF s[val.next] = "}"
                  THEN [ok |-> TRUE, v |-> JObj(now), next |-> val.next + 1]
             ELSE IF s[val.next] = ","
                  THEN ParseMembers(s, val.next + 1, now)
             ELSE ParseFailed

\* One JSON value starting at position i.
ParseValue(s, i) ==
    IF i > Len(s) THEN ParseFailed
    ELSE IF s[i] \in ScalarLexemes
         THEN [ok |-> TRUE, v |-> ScalarValue(s[i]), next |-> i + 1]
    ELSE IF s[i] = "{"
         THEN IF i + 1 <= Len(s) /\ s[i + 1] = "}"
              THEN [ok |-> TRUE, v |-> JObj(<<>>), next |-> i + 2]
              ELSE ParseMembers(s, i + 1, <<>>)
    ELSE ParseFailed

\* json.loads(text) of a str: the value, or ok = FALSE for JSONDecodeError.
JsonLoads(s) ==
    LET r == ParseValue(s, 1)
    IN  IF r.ok /\ r.next = Len(s) + 1 THEN r ELSE ParseFailed

\* ------------------------------------------------- judge opinions (dicts)
\* The result dict carries no 'error' key unless it is a fallback result.
NoError == "<no error key>"

\* A fallback result that carries no error marker.
FallbackWithoutError(model, error) ==
    [judge_model |-> model,
     overall_score |-> NeutralScore,
     criterion_scores |->
        [c \in Criteria |-> [score |-> NeutralScore, reasoning |-> "Judge failed"]],
     summary |-> "Evaluation failed",
     error |-> NoError]

\* _create_fallback_result(model, error)
CreateFallbackResult(model, error) ==
    [judge_model |-> model,
     overall_score |-> NeutralScore,
     criterion_scores |->
        [c \in Criteria |-> [score |-> NeutralScore, reasoning |-> "Judge failed"]],
     summary |-> "Evaluation failed",
     error |-> error]

\* ------------------------------------------ _extract_json_from_text helpers
MinOf(S) == CHOOSE i \in S : \A j \in S : i <= j
MaxOf(S) == CHOOSE i \in S : \A j \in S : i >= j

RECURSIVE SumSeq(_)
SumSeq(q) == IF q = <<>> THEN 0 ELSE Head(q) + SumSeq(Tail(q))

NoRecord == [found |-> FALSE, data |-> JNull]
Found(v) == [found |-> TRUE, data |-> v]

\* Lexemes whose text starts with three backticks / with a backtick, and
\* those whose text ends with a backtick.
StartsWithFence == {"fence", "fence_json"}
StartsWithTick == {"tick", "fence", "fence_json"}
EndsWithTick == {"tick", "fence"}

\* re.search of a code block pattern (an opening fence, optional white
\* space, a lazy brace group, optional white space, a closing fence): the
\* leftmost opening lexeme followed by an opening brace, and lazily the first
\* closing brace after it that a closing lexeme follows.  The group is
\* returned, or the empty sequence for no match.
CodeBlockGroup(text, opens, closes) ==
    LET ends(i) == {k \in (i + 2)..(Len(text) - 1) :
                       text[k] = "}" /\ text[k + 1] \in closes}
        starts == {i \in 1..(Len(text) - 1) :
                       text[i] \in opens /\ text[i + 1] = "{" /\ ends(i) # {}}
    IN  IF starts = {} THEN <<>>
        ELSE SubSeq(text, MinOf(starts) + 1, MinOf(ends(MinOf(starts))))

\* code_block_patterns, in order: the json-tagged fence, the plain fence, the
\* single backtick (which has no white space between backtick and brace).
CodeBlockPattern(text, n) ==
    CASE n = 1 -> CodeBlockGroup(text, {"fence_json"}, StartsWithFence)
      [] n = 2 -> CodeBlockGroup(text, {"fence"}, StartsWithFence)
      [] n = 3 -> CodeBlockGroup(text, EndsWithTick, StartsWithTick)

\* Strategy 1: the first pattern whose first match parses is returned; a
\* pattern whose match does not parse is skipped (continue).
RECURSIVE CodeBlockFrom(_, _)
CodeBlockFrom(text, n) ==
    IF n > 3 THEN NoRecord
    ELSE LET g == CodeBlockPattern(text, n)
         IN  IF g # <<>> /\ JsonLoads(g).ok THEN Found(JsonLoads(g).v)
             ELSE CodeBlockFrom(text, n + 1)

StrategyCodeBlock(text) == CodeBlockFrom(text, 1)

\* The end of a match of the nested-object pattern of json_patterns whose
\* opening brace is just before position p: lexemes without braces, and brace
\* groups without inner braces, are consumed up to the first closing brace
\* outside a group.  0: no match.
RECURSIVE BraceMatchEnd(_, _)
BraceMatchEnd(text, p) ==
    IF p > Len(text) THEN 0
    ELSE IF text[p] = "}" THEN p
    ELSE IF text[p] = "{"
         THEN LET braces == {q \in (p + 1)..Len(text) : text[q] \in {"{", "}"}}
              IN  IF braces = {} \/ text[MinOf(braces)] = "{" THEN 0
                  ELSE BraceMatchEnd(text, MinOf(braces) + 1)
    ELSE BraceMatchEnd(text, p + 1)

\* re.findall(pattern, text): the matches from left to right, none overlapping.
RECURSIVE BraceFindAll(_, _)
BraceFindAll(text, p) ==
    IF p > Len(text) THEN <<>>
    ELSE IF text[p] = "{" /\ BraceMatchEnd(text, p + 1) # 0
         THEN <<SubSeq(text, p, BraceMatchEnd(text, p + 1))>>
              \o BraceFindAll(text, BraceMatchEnd(text, p + 1) + 1)
    ELSE BraceFindAll(text, p + 1)

\* isinstance(parsed, dict) and (criterion_scores in parsed or overall_score
\* in parsed)
HasExpectedStructure(v) ==
    /\ v.t = "dict"
    /\ \/ "criterion_scores" \in DOMAIN v.m
       \/ "overall_score" \in DOMAIN v.m

\* Strategy 2: the first match that parses to a dict of the expected structure.
RECURSIVE FirstValidMatch(_)
FirstValidMatch(matches) ==
    IF matches = <<>> THEN NoRecord
    ELSE LET r == JsonLoads(Head(matches))
         IN  IF r.ok /\ HasExpectedStructure(r.v) THEN Found(r.v)
             ELSE FirstValidMatch(Tail(matches))

StrategyBraceScan(text) == FirstValidMatch(BraceFindAll(text, 1))

\* The three fixes, in order: quote a word before a colon; turn a single-quoted
\* string into a double-quoted one; drop a comma before a closing bracket.  Of
\* the lexemes only a bare key, a single-quoted key and a comma before a
\* closing brace are changed by them.
RepairLexeme(lex) ==
    CASE lex = "b:overall_score" -> "q:overall_score"
      [] lex = "s:overall_score" -> "q:overall_score"
      [] OTHER -> lex

RECURSIVE StripTrailingCommas(_)
StripTrailingCommas(s) ==
    IF s = <<>> THEN <<>>
    ELSE IF Head(s) = "," /\ Len(s) >= 2 /\ s[2] = "}"
         THEN StripTrailingCommas(Tail(s))
    ELSE <<Head(s)>> \o StripTrailingCommas(Tail(s))

ApplyFixes(s) == StripTrailingCommas([i \in 1..Len(s) |-> RepairLexeme(s[i])])

\* Strategy 3: the greedy brace search, from the first opening brace to the
\* last closing brace, repaired and parsed.
StrategyRepair(text) ==
    LET opens == {i \in 1..Len(text) : text[i] = "{"}
        closes == {k \in 1..Len(text) : text[k] = "}"}
    IN  IF opens = {} \/ closes = {} \/ MaxOf(closes) < MinOf(opens) THEN NoRecord
        ELSE LET r == JsonLoads(ApplyFixes(SubSeq(text, MinOf(opens), MaxOf(closes))))
             IN  IF r.ok THEN Found(r.v) ELSE NoRecord

MentionLexemes == {"0/10", "7/10", "8/10", "15/10"}
MentionValue(lex) ==
    CASE lex = "0/10" -> 0
      [] lex = "7/10" -> 7 * Scale
      [] lex = "8/10" -> 8 * Scale
      [] lex = "15/10" -> 15 * Scale

\* re.findall of the number-slash-ten pattern, as floats
RECURSIVE ScoreMatches(_)
ScoreMatches(text) ==
    IF text = <<>> THEN <<>>
    ELSE IF Head(text) \in MentionLexemes
         THEN <<MentionValue(Head(text))>> \o ScoreMatches(Tail(text))
    ELSE ScoreMatches(Tail(text))

\* A strategy 4 that takes the first mentioned score instead of the mean.
StrategyFirstMention(text) ==
    LET scores == ScoreMatches(text)
        first_score == Head(scores)
    IN  IF scores = <<>> THEN NoRecord
        ELSE Found(JObj(
            [k \in {"overall_score", "criterion_scores", "summary"} |->
                CASE k = "overall_score" -> JNum(first_score)
                  [] k = "criterion_scores" ->
                        JObj([c \in Criteria |->
                            JObj([f \in {"score", "reasoning"} |->
                                IF f = "score" THEN JNum(first_score)
                                ELSE JStr("Extracted from text analysis")])])
                  [] k = "summary" ->
                        JStr("Score extracted from malformed response text")]))

\* Strategy 4: the mean of the mentioned scores for overall and every criterion.
StrategyScoreMentions(text) ==
    LET scores == ScoreMatches(text)
        avg_score == SumSeq(scores) \div Len(scores)
    IN  IF scores = <<>> THEN NoRecord
        ELSE Found(JObj(
            [k \in {"overall_score", "criterion_scores", "summary"} |->
                CASE k = "overall_score" -> JNum(avg_score)
                  [] k = "criterion_scores" ->
                        JObj([c \in Criteria |->
                            JObj([f \in {"score", "reasoning"} |->
                                IF f = "score" THEN JNum(avg_score)
                                ELSE JStr("Extracted from text analysis")])])
                  [] k = "summary" ->
                        JStr("Score extracted from malformed response text")]))

\* The strategies of _extract_json_from_text by number.
Strategy(k, text) ==
    CASE k = 1 -> StrategyCodeBlock(text)
      [] k = 2 -> StrategyBraceScan(text)
      [] k = 3 -> StrategyRepair(text)
      [] k = 4 -> StrategyScoreMentions(text)

\* An order that tries the score mentions before the repair.
MentionsBeforeRepair == <<1, 2, 4, 3>>

\* The order in which _extract_json_from_text tries its strategies.
StrategyOrder == <<1, 2, 3, 4>>

\* _extract_json_from_text(text): the record of the first strategy in order
\* that yields one, with the strategy's number; via = 5, found = FALSE for None.
RECURSIVE ExtractFrom(_, _)
ExtractFrom(text, order) ==
    IF order = <<>> THEN [found |-> FALSE, data |-> JNull, via |-> 5]
    ELSE LET r == Strategy(Head(order), text)
         IN  IF r.found THEN [found |-> TRUE, data |-> r.data, via |-> Head(order)]
             ELSE ExtractFrom(text, Tail(order))

ExtractJsonFromText(text) == ExtractFrom(text, StrategyOrder)

\* ------------------------------------------------------- _parse_judgment
\* float(x) succeeds for a number and for a string that spells one; "7" is
\* the only string of the lexemes that does.
FloatOk(v) == v.t = "num" \/ (v.t = "str" /\ v.s = "7")
FloatOf(v) == IF v.t = "num" THEN v.n ELSE 7 * Scale

\* dict.get(key, default) on the members of a dict
Get(members, key, default) ==
    IF key \in DOMAIN members THEN members[key] ELSE default

\* The outcome of a call of _parse_judgment: the opinion it returns, or
\* raised = TRUE when an exception leaves it; via is the strategy that gave
\* the record (0: the whole response, 1..4: _extract_json_from_text, 5: none).
Raised(via) ==
    [raised |-> TRUE, via |-> via, opinion |-> CreateFallbackResult(0, "raised")]
Returned(via, opinion) ==
    [raised |-> FALSE, via |-> via, opinion |-> opinion]

\* Lines 486-501: the result structure built from the record judgment_data.
\* judgment_data.get raises on a value that is no dict, float() on a value
\* that is no number, .items() and details.get on values that are no dicts.
BuildResult(judgment_data, model, via) ==
    IF judgment_data.t # "dict" THEN Raised(via)
    ELSE
    LET d == judgment_data.m
        overall == Get(d, "overall_score", JNum(NeutralScore))
        summary == Get(d, "summary", JStr("No summary provided"))
        scores == Get(d, "criterion_scores", JObj(<<>>))
        detail(c) == scores.m[c]
        score(c) == Get(detail(c).m, "score", JNum(NeutralScore))
        reasoning(c) == Get(detail(c).m, "reasoning", JStr("No reasoning provided"))
    IN  IF ~FloatOk(overall) THEN Raised(via)
        ELSE IF scores.t # "dict" THEN Raised(via)
        ELSE IF \E c \in DOMAIN scores.m :
                    detail(c).t # "dict" \/ ~FloatOk(score(c))
             THEN Raised(via)
        ELSE Returned(via,
                [judge_model |-> model,
                 overall_score |-> FloatOf(overall),
                 criterion_scores |->
                    [c \in DOMAIN scores.m |->
                        [score |-> FloatOf(score(c)), reasoning |-> reasoning(c).s]],
                 summary |-> summary.s,
                 error |-> NoError])

\* The content of a judge response: a text, or None.
NoneContent == [is_none |-> TRUE, text |-> <<>>]
TextContent(text) == [is_none |-> FALSE, text |-> text]

\* _parse_judgment(judgment_text, model).  json.loads(None) raises TypeError,
\* which the except clause for JSONDecodeError does not catch.
ParseJudgment(judgment_text, model) ==
    IF judgment_text.is_none THEN Raised(0)
    ELSE LET whole == JsonLoads(judgment_text.text)
             extracted == ExtractJsonFromText(judgment_text.text)
         IN  IF whole.ok THEN BuildResult(whole.v, model, 0)
             ELSE IF ~extracted.found
                  THEN Returned(5, CreateFallbackResult(model, "Invalid JSON response"))
             ELSE BuildResult(extracted.data, model, extracted.via)

\* ------------------------------------------------------------- statistics
\* A running average, which weighs the later scores more.
RECURSIVE RunningMeanFrom(_, _)
RunningMeanFrom(avg, xs) ==
    IF xs = <<>> THEN avg ELSE RunningMeanFrom((avg + Head(xs)) \div 2, Tail(xs))
RunningMean(xs) == RunningMeanFrom(Head(xs), Tail(xs))

\* statistics.mean(xs)
Mean(xs) == SumSeq(xs) \div Len(xs)

\* The integer square root of v (the largest r with r * r <= v).
RECURSIVE SqrtBetween(_, _, _)
SqrtBetween(v, lo, hi) ==
    IF lo >= hi THEN lo
    ELSE LET mid == (lo + hi + 1) \div 2
         IN  IF mid * mid <= v THEN SqrtBetween(v, mid, hi)
             ELSE SqrtBetween(v, lo, mid - 1)
Sqrt(v) == SqrtBetween(v, 0, 46340)

RECURSIVE SumSquaredDeviations(_, _)
SumSquaredDeviations(xs, m) ==
    IF xs = <<>> THEN 0
    ELSE (Head(xs) - m) * (Head(xs) - m) + SumSquaredDeviations(Tail(xs), m)

\* statistics.stdev(xs): the sample standard deviation, which divides the sum
\* of squared deviations by len(xs) - 1.
Stdev(xs) == Sqrt(SumSquaredDeviations(xs, Mean(xs)) \div (Len(xs) - 1))

\* A deviation without the guard for a single value: statistics.stdev raises
\* StatisticsError on fewer than two values, written here as -1.
StdevOrError(xs) == IF Len(xs) > 1 THEN Stdev(xs) ELSE -1

\* statistics.stdev(xs) if len(xs) > 1 else 0.0
StdevOrZero(xs) == IF Len(xs) > 1 THEN Stdev(xs) ELSE 0

\* ---------------------------------------------------- _calculate_consensus
\* The results that score criterion c, in the order of individual_results.
RECURSIVE ResultsWith(_, _)
ResultsWith(results, c) ==
    IF results = <<>> THEN <<>>
    ELSE IF c \in DOMAIN Head(results).criterion_scores
         THEN <<Head(results)>> \o ResultsWith(Tail(results), c)
    ELSE ResultsWith(Tail(results), c)

\* The strength without the clamp of line 374.
ConsensusStrengthUnclamped(mean_score, std_score) ==
    IF mean_score > 0 THEN Scale - ((std_score * Scale) \div mean_score) ELSE 0

\* 1.0 - (std_score / mean_score) if mean_score > 0 else 0.0, clamped to [0,1]
ConsensusStrength(mean_score, std_score) ==
    LET raw == IF mean_score > 0 THEN Scale - ((std_score * Scale) \div mean_score)
               ELSE 0
    IN  IF raw < 0 THEN 0 ELSE IF raw > Scale THEN Scale ELSE raw

\* The ConsensusScore of criterion c over the results that score it.
ConsensusOf(results, c) ==
    LET with == ResultsWith(results, c)
        scores == [i \in 1..Len(with) |-> with[i].criterion_scores[c].score]
    IN  [criterion |-> c,
         mean_score |-> Mean(scores),
         std_score |-> StdevOrZero(scores),
         individual_scores |-> scores,
         judge_models |-> [i \in 1..Len(with) |-> with[i].judge_model],
         consensus_strength |-> ConsensusStrength(Mean(scores), StdevOrZero(scores))]

\* _calculate_consensus(individual_results): one ConsensusScore for every
\* catalog criterion that at least one result scores.
CalculateConsensus(results) ==
    [c \in {x \in Criteria : ResultsWith(results, x) # <<>>} |->
        ConsensusOf(results, c)]

\* The overall scores of evaluate_text (lines 250-253).
OverallScores(results) == [i \in 1..Len(results) |-> results[i].overall_score]

\* The band of the average consensus strength in _generate_consensus_summary.
AgreementBand(consensus) ==
    LET cs == DOMAIN consensus
        RECURSIVE SumOver(_)
        SumOver(S) == IF S = {} THEN 0
                      ELSE LET x == CHOOSE y \in S : TRUE
                           IN  consensus[x].consensus_strength + SumOver(S \ {x})
        avg == IF cs = {} THEN 0 ELSE SumOver(cs) \div Cardinality(cs)
    IN  IF avg > 8 * (Scale \div 10) THEN "high"
        ELSE IF avg > 6 * (Scale \div 10) THEN "moderate" ELSE "low"

\* The MultiJudgeResult that evaluate_text returns for the collected results.
MultiJudgeResult(models, results) ==
    [overall_score |-> Mean(OverallScores(results)),
     overall_std |-> StdevOrZero(OverallScores(results)),
     criterion_scores |-> CalculateConsensus(results),
     summary |-> AgreementBand(CalculateConsensus(results)),
     judge_models |-> models,
     judge_count |-> Len(models),
     individual_results |-> results]

\* ------------------------------------- quality_aggregator.py: arithmetic
\* a / b for b > 0, rounded toward zero: the division of floats is symmetric
\* in the sign of a, which the integer division of negative numbers is not.
Quot(a, b) == IF a >= 0 THEN a \div b ELSE -((-a) \div b)

\* math.sqrt(n) of a count n, in thousandths.
SqrtOfCount(n) == Sqrt(n * Scale * Scale)

\* math.exp(-t) for t >= 0 in thousandths, in millionths: exp(-q) of the
\* whole part from a table, exp(-r) of the fraction from its power series.
ExpOfWhole ==
    <<1000000, 367879, 135335, 49787, 18316, 6738, 2479, 912, 335, 123, 45, 17,
      6, 2>>
RECURSIVE ExpSeries(_, _, _)
ExpSeries(r, k, term) ==
    IF k > 9 \/ term = 0 THEN 0
    ELSE LET next == (term * r) \div (k * Scale)
         IN  (IF k % 2 = 1 THEN -next ELSE next) + ExpSeries(r, k + 1, next)
ExpNeg(t) ==
    LET q == t \div Scale
        frac == (Scale * Scale + ExpSeries(t % Scale, 1, Scale * Scale)) \div Scale
    IN  IF q >= Len(ExpOfWhole) THEN 0 ELSE (ExpOfWhole[q + 1] * frac) \div Scale

\* ------------------------------------------- calculate_confidence_interval
\* t_values, in hundredths, by degrees of freedom 1..10.
TValues == <<1271, 430, 318, 278, 257, 245, 236, 231, 226, 223>>
\* t_values.get(n-1, 2.0)
DefaultTValue == 200
\* the z-score of line 117
ZValue == 196
\* a sample of this size or more takes the z-score (if n < 30)
LargeSample == 30

\* A multiplier that takes the z-score only above LargeSample scores.
TValueLateZ(n) ==
    IF n <= LargeSample
    THEN IF n - 1 \in DOMAIN TValues THEN TValues[n - 1] ELSE DefaultTValue
    ELSE ZValue

\* The multiplier of the margin for n scores, in hundredths (lines 111-117).
TValue(n) ==
    IF n < LargeSample
    THEN IF n - 1 \in DOMAIN TValues THEN TValues[n - 1] ELSE DefaultTValue
    ELSE ZValue

\* t_value * (std_dev / math.sqrt(n))
MarginOfError(t_value, std_dev, n) ==
    (t_value * ((std_dev * Scale) \div SqrtOfCount(n))) \div 100

\* An interval that is (0.0, 0.0) for every list of fewer than 2 scores.
ConfidenceIntervalFromZero(xs) ==
    IF Len(xs) < 2 THEN <<0, 0>>
    ELSE LET margin_error == MarginOfError(TValue(Len(xs)), Stdev(xs), Len(xs))
         IN  <<Mean(xs) - margin_error, Mean(xs) + margin_error>>

\* calculate_confidence_interval(scores) as the pair (low, high).
ConfidenceInterval(xs) ==
    IF Len(xs) < 2
    THEN IF xs = <<>> THEN <<0, 0>> ELSE <<xs[1], xs[1]>>
    ELSE LET margin_error == MarginOfError(TValue(Len(xs)), Stdev(xs), Len(xs))
         IN  <<Mean(xs) - margin_error, Mean(xs) + margin_error>>

\* ------------------------------------------------------ calculate_cohens_d
PooledStd(scores1, scores2) ==
    Sqrt(((Len(scores1) - 1) * Stdev(scores1) * Stdev(scores1)
            + (Len(scores2) - 1) * Stdev(scores2) * Stdev(scores2))
         \div (Len(scores1) + Len(scores2) - 2))

CohensD(scores1, scores2) ==
    IF Len(scores1) < 2 \/ Len(scores2) < 2 THEN 0
    ELSE IF PooledStd(scores1, scores2) = 0 THEN 0
    ELSE Quot((Mean(scores1) - Mean(scores2)) * Scale, PooledStd(scores1, scores2))

\* A p-value that is 0.0 where no t statistic can be formed.
PValueZeroWhenUntested(scores1, scores2) ==
    IF Len(scores1) > 1 /\ Len(scores2) > 1
    THEN LET se == Sqrt((Stdev(scores1) * Stdev(scores1)) \div Len(scores1)
                        + (Stdev(scores2) * Stdev(scores2)) \div Len(scores2))
             diff == Mean(scores1) - Mean(scores2)
             t_stat == ((IF diff < 0 THEN -diff ELSE diff) * Scale) \div se
             p == (2 * ExpNeg(t_stat)) \div Scale
         IN  IF se > 0 THEN (IF p < 1 THEN 1 ELSE p) ELSE 0
    ELSE 0

\* The approximate p-value of two score lists, in thousandths (lines 272-288).
PValue(scores1, scores2) ==
    IF Len(scores1) > 1 /\ Len(scores2) > 1
    THEN LET se == Sqrt((Stdev(scores1) * Stdev(scores1)) \div Len(scores1)
                        + (Stdev(scores2) * Stdev(scores2)) \div Len(scores2))
             diff == Mean(scores1) - Mean(scores2)
             t_stat == ((IF diff < 0 THEN -diff ELSE diff) * Scale) \div se
             p == (2 * ExpNeg(t_stat)) \div Scale
         IN  IF se > 0 THEN (IF p < 1 THEN 1 ELSE p) ELSE Scale
    ELSE Scale

\* ------------------------------------------- EnhancedQualityAggregator
\* A JudgmentSample is [prompt, sampler_name, judgment]; its judgment is None
\* or a JudgmentResult with overall_score and a list of
\* [criterion, score] entries.  sampler_config and generated_text are carried
\* along by the code and read by no statistic.
NoJudgment == [is_none |-> TRUE, overall_score |-> 0, criterion_scores |-> <<>>]
JudgmentResult(overall_score, criterion_scores) ==
    [is_none |-> FALSE, overall_score |-> overall_score,
     criterion_scores |-> criterion_scores]
JudgmentSample(prompt, sampler_name, judgment) ==
    [prompt |-> prompt, sampler_name |-> sampler_name, judgment |-> judgment]

\* The judgment of a sample judged by several judges: the MultiJudgeResult of
\* evaluate_text, whose criterion_scores are ConsensusScore entries (criterion,
\* mean_score, std_score, ...) and carry no score attribute.
ConsensusJudgment(results) ==
    [is_none |-> FALSE,
     overall_score |-> Mean(OverallScores(results)),
     criterion_scores |->
        [i \in 1..1 |-> ConsensusOf(results, "prose_quality")]]

\* The keys of a dict filled from the list q, in insertion order.
RECURSIVE Distinct(_)
Distinct(q) ==
    IF q = <<>> THEN <<>>
    ELSE <<Head(q)>> \o Distinct(SelectSeq(Tail(q), LAMBDA x : x # Head(q)))

RECURSIVE Flatten(_)
Flatten(qs) == IF qs = <<>> THEN <<>> ELSE Head(qs) \o Flatten(Tail(qs))

\* A grouping that keeps the samples without a judgment.
GroupWithoutFilter(samples) ==
    LET key(s) == <<s.prompt, s.sampler_name>>
        keys == Distinct([i \in 1..Len(samples) |-> key(samples[i])])
    IN  [k \in 1..Len(keys) |->
            [key |-> keys[k],
             samples |-> SelectSeq(samples, LAMBDA s : key(s) = keys[k])]]

\* group_by_prompt_sampler(): the samples with a judgment by (prompt, sampler),
\* as the list of the dict's items.
GroupByPromptSampler(samples) ==
    LET judged == SelectSeq(samples, LAMBDA s : ~s.judgment.is_none)
        key(s) == <<s.prompt, s.sampler_name>>
        keys == Distinct([i \in 1..Len(judged) |-> key(judged[i])])
    IN  [k \in 1..Len(keys) |->
            [key |-> keys[k],
             samples |-> SelectSeq(judged, LAMBDA s : key(s) = keys[k])]]

\* calculate_prompt_sampler_stats(samples) for a non-empty group
CalculatePromptSamplerStats(group) ==
    LET repetition_scores == [i \in 1..Len(group) |-> group[i].judgment.overall_score]
    IN  [prompt |-> group[1].prompt,
         sampler_name |-> group[1].sampler_name,
         repetition_scores |-> repetition_scores,
         mean_score |-> Mean(repetition_scores),
         std_dev |-> StdevOrZero(repetition_scores),
         confidence_interval |-> ConfidenceInterval(repetition_scores),
         sample_size |-> Len(group)]

\* Whether calculate_criterion_stats(sampler_name) raises AttributeError: the
\* loop of lines 237-242 reads cs.score of the first entry of every criterion
\* in every judged sample of the sampler.
CriterionScoreMissing(samples, sampler_name) ==
    \E i \in DOMAIN samples :
        /\ samples[i].sampler_name = sampler_name
        /\ ~samples[i].judgment.is_none
        /\ \E k \in DOMAIN samples[i].judgment.criterion_scores :
              "score" \notin DOMAIN samples[i].judgment.criterion_scores[k]

\* calculate_criterion_stats(sampler_name)
CalculateCriterionStats(samples, sampler_name) ==
    LET sampler_samples ==
            SelectSeq(samples,
                LAMBDA s : s.sampler_name = sampler_name /\ ~s.judgment.is_none)
        entries(s) == s.judgment.criterion_scores
        names(s) == {entries(s)[i].criterion : i \in DOMAIN entries(s)}
        criterion_names == UNION {names(sampler_samples[i]) : i \in DOMAIN sampler_samples}
        first(s, c) ==
            entries(s)[MinOf({i \in DOMAIN entries(s) : entries(s)[i].criterion = c})].score
        scoring(c) == SelectSeq(sampler_samples, LAMBDA s : c \in names(s))
        scores(c) == [i \in 1..Len(scoring(c)) |-> first(scoring(c)[i], c)]
        values(c) == {scores(c)[i] : i \in DOMAIN scores(c)}
    IN  [c \in criterion_names |->
            [mean |-> Mean(scores(c)),
             std |-> StdevOrZero(scores(c)),
             min |-> MinOf(values(c)),
             max |-> MaxOf(values(c)),
             count |-> Len(scores(c))]]

\* The scores of a sampler across its prompts (all_scores, scores1, scores2).
AllScores(prompt_stats) ==
    Flatten([i \in 1..Len(prompt_stats) |-> prompt_stats[i].repetition_scores])

\* A consistency taken from the deviation of all scores of the sampler.
ConsistencyOfAllScores(prompt_stats) ==
    LET raw == 10 * Scale - StdevOrZero(AllScores(prompt_stats))
    IN  IF raw < 0 THEN 0 ELSE IF raw > 10 * Scale THEN 10 * Scale ELSE raw

\* Lines 200-202: 10.0 minus the deviation of the prompt means, in [0,10].
PromptConsistency(prompt_stats) ==
    LET prompt_means == [i \in 1..Len(prompt_stats) |-> prompt_stats[i].mean_score]
        raw == 10 * Scale - StdevOrZero(prompt_means)
    IN  IF raw < 0 THEN 0 ELSE IF raw > 10 * Scale THEN 10 * Scale ELSE raw

\* calculate_sampler_stats(sampler_name, prompt_stats) for a non-empty list
CalculateSamplerStats(samples, sampler_name, prompt_stats) ==
    [sampler_name |-> sampler_name,
     overall_mean |-> Mean(AllScores(prompt_stats)),
     overall_std |-> StdevOrZero(AllScores(prompt_stats)),
     overall_confidence_interval |-> ConfidenceInterval(AllScores(prompt_stats)),
     prompt_stats |-> prompt_stats,
     prompt_consistency |-> PromptConsistency(prompt_stats),
     total_samples |-> Len(AllScores(prompt_stats)),
     prompts_covered |-> Len(prompt_stats),
     criterion_stats |-> CalculateCriterionStats(samples, sampler_name)]

\* The position of name in the list of the dict's keys.
IndexOf(order, name) == MinOf({i \in DOMAIN order : order[i] = name})

\* The samplers that get an entry in a pairwise map: every sampler once there
\* are two of them (the loops over samplers and samplers[i+1:]).
Paired(order) == IF Len(order) < 2 THEN {} ELSE {order[i] : i \in DOMAIN order}

\* calculate_statistical_significance(sampler_stats)
CalculateStatisticalSignificance(order, sampler_stats) ==
    [a \in Paired(order) |->
        [b \in Paired(order) \ {a} |->
            IF IndexOf(order, a) < IndexOf(order, b)
            THEN PValue(AllScores(sampler_stats[a].prompt_stats),
                        AllScores(sampler_stats[b].prompt_stats))
            ELSE PValue(AllScores(sampler_stats[b].prompt_stats),
                        AllScores(sampler_stats[a].prompt_stats))]]

\* Effect sizes whose reverse entry keeps the sign.
EffectSizesSameSign(order, sampler_stats) ==
    [a \in Paired(order) |->
        [b \in Paired(order) \ {a} |->
            IF IndexOf(order, a) < IndexOf(order, b)
            THEN CohensD(AllScores(sampler_stats[a].prompt_stats),
                         AllScores(sampler_stats[b].prompt_stats))
            ELSE CohensD(AllScores(sampler_stats[b].prompt_stats),
                         AllScores(sampler_stats[a].prompt_stats))]]

\* calculate_effect_sizes(sampler_stats): cohens_d for the pair in the order
\* of the keys, -cohens_d for the reverse entry.
CalculateEffectSizes(order, sampler_stats) ==
    [a \in Paired(order) |->
        [b \in Paired(order) \ {a} |->
            IF IndexOf(order, a) < IndexOf(order, b)
            THEN CohensD(AllScores(sampler_stats[a].prompt_stats),
                         AllScores(sampler_stats[b].prompt_stats))
            ELSE -CohensD(AllScores(sampler_stats[b].prompt_stats),
                          AllScores(sampler_stats[a].prompt_stats))]]

\* The name of the first item whose value exceeds best_score and every
\* earlier value: the loop of lines 349-355 and the built-in max.
RECURSIVE BestOf(_, _, _)
BestOf(items, best_score, best) ==
    IF items = <<>> THEN best
    ELSE IF Head(items).value > best_score
         THEN BestOf(Tail(items), Head(items).value, Head(items).name)
    ELSE BestOf(Tail(items), best_score, best)

\* best_per_prompt[prompt] (lines 348-356)
BestSamplerFor(prompt, order, sampler_stats) ==
    LET on(q) == SelectSeq(q, LAMBDA ps : ps.prompt = prompt)
        items == Flatten([i \in 1..Len(order) |->
                    [k \in 1..Len(on(sampler_stats[order[i]].prompt_stats)) |->
                        [name |-> order[i],
                         value |-> on(sampler_stats[order[i]].prompt_stats)[k].mean_score]]])
    IN  BestOf(items, 0, "")

\* max(sampler_stats.items(), key=...)[0] for a non-empty dict
MaxSampler(items) == BestOf(Tail(items), Head(items).value, Head(items).name)

\* What a call of get_enhanced_benchmark_results leaves with its caller: the
\* QualityBenchmarkResults, or the exception it raised, the AttributeError of
\* calculate_criterion_stats or the ValueError of max() over no sampler.
NoBenchmarkResults ==
    [called |-> FALSE, raised |-> FALSE, error |-> "none",
     timestamp |-> 0, samples |-> <<>>,
     samplers |-> <<>>, sampler_stats |-> <<>>, statistical_significance |-> <<>>,
     effect_sizes |-> <<>>, best_sampler_per_prompt |-> <<>>,
     most_consistent_sampler |-> "", highest_quality_sampler |-> ""]

\* get_enhanced_benchmark_results() on self.samples at the time timestamp.
EnhancedBenchmarkResults(samples, timestamp) ==
    LET groups == GroupByPromptSampler(samples)
        order == Distinct([k \in 1..Len(groups) |-> groups[k].key[2]])
        of(sampler) == SelectSeq(groups, LAMBDA g : g.key[2] = sampler)
        sampler_prompt_stats(sampler) ==
            [k \in 1..Len(of(sampler)) |->
                CalculatePromptSamplerStats(of(sampler)[k].samples)]
        sampler_stats ==
            [sampler \in {order[i] : i \in DOMAIN order} |->
                CalculateSamplerStats(samples, sampler, sampler_prompt_stats(sampler))]
        all_prompts == {groups[k].key[1] : k \in DOMAIN groups}
        consistency ==
            [i \in 1..Len(order) |->
                [name |-> order[i], value |-> sampler_stats[order[i]].prompt_consistency]]
        quality ==
            [i \in 1..Len(order) |->
                [name |-> order[i], value |-> sampler_stats[order[i]].overall_mean]]
    IN  IF \E i \in DOMAIN order : CriterionScoreMissing(samples, order[i])
        THEN [NoBenchmarkResults EXCEPT
                !.called = TRUE, !.raised = TRUE, !.error = "AttributeError"]
        ELSE IF order = <<>>
        THEN [NoBenchmarkResults EXCEPT
                !.called = TRUE, !.raised = TRUE, !.error = "ValueError"]
        ELSE [called |-> TRUE,
              raised |-> FALSE,
              error |-> "none",
              timestamp |-> timestamp,
              samples |-> samples,
              samplers |-> order,
              sampler_stats |-> sampler_stats,
              statistical_significance |->
                  CalculateStatisticalSignificance(order, sampler_stats),
              effect_sizes |-> CalculateEffectSizes(order, sampler_stats),
              best_sampler_per_prompt |->
                  [prompt \in all_prompts |-> BestSamplerFor(prompt, order, sampler_stats)],
              most_consistent_sampler |-> MaxSampler(consistency),
              highest_quality_sampler |-> MaxSampler(quality)]

\* ----------------------------------------- llm_judge.py: the single judge
\* self.criteria of CreativeWritingJudge, in the order of its keys, and the
\* weight of every criterion in hundredths.
JudgeCriteria ==
    <<"narrative_coherence", "creativity_originality", "character_development",
      "engagement_readability", "stylistic_quality">>
CriteriaWeights ==
    [narrative_coherence |-> 25, creativity_originality |-> 25,
     character_development |-> 20, engagement_readability |-> 20,
     stylistic_quality |-> 10]
DefaultWeight == 20

\* self.criteria.get(score.criterion, {}).get('weight', 0.2)
WeightOf(criterion) ==
    IF criterion \in DOMAIN CriteriaWeights
    THEN CriteriaWeights[criterion] ELSE DefaultWeight

\* What json.loads makes of a response text: nothing (JSONDecodeError), a
\* JSON list, or an object.  An object that evaluates one sample has the
\* sample_id the judge gave it (0 in a response about a single sample), an
\* overall_score or none, and criterion_scores, here the list of the items
\* of that dict with the score of each.
NotJson == [kind |-> "not json", evaluations |-> <<>>]
JsonList == [kind |-> "list", evaluations |-> <<>>]
Evaluation(sample_id, has_overall, overall_score, criterion_scores) ==
    [kind |-> "object", sample_id |-> sample_id, has_overall |-> has_overall,
     overall_score |-> overall_score, criterion_scores |-> criterion_scores]
\* An entry of 'evaluations' that is no object, a string for instance.
MalformedEntry ==
    [kind |-> "string", sample_id |-> 0, has_overall |-> FALSE,
     overall_score |-> 0, criterion_scores |-> <<>>]
\* An object with the key 'evaluations'.
BatchObject(evaluations) == [kind |-> "object", evaluations |-> evaluations]

\* JudgmentResult(...) of llm_judge.py.  about is the sample the scores were
\* given to: the sample of a judge_text call, the sample a batch evaluation
\* names with its sample_id, 0 for the neutral scores of a fallback.
JudgeResult(overall_score, criterion_scores, summary, about) ==
    [overall_score |-> overall_score, criterion_scores |-> criterion_scores,
     summary |-> summary, about |-> about]

\* The fallback JudgmentResult: 5.0 overall and for every criterion.
NeutralResult(summary) ==
    JudgeResult(NeutralScore,
        [i \in 1..Len(JudgeCriteria) |->
            [criterion |-> JudgeCriteria[i], score |-> NeutralScore]],
        summary, 0)

\* sum(score.score * weight for score in criterion_scores)
WeightedSum(criterion_scores) ==
    SumSeq([i \in 1..Len(criterion_scores) |->
                criterion_scores[i].score * WeightOf(criterion_scores[i].criterion)])
        \div 100

\* Lines 204-211 and 407-413: float(get('overall_score', 5.0)), replaced by
\* the weighted sum when it equals 5.0 and there are criterion scores.
OverallScoreOf(evaluation) ==
    LET overall_score ==
            IF evaluation.has_overall THEN evaluation.overall_score ELSE NeutralScore
    IN  IF overall_score = NeutralScore /\ evaluation.criterion_scores # <<>>
        THEN WeightedSum(evaluation.criterion_scores)
        ELSE overall_score

\* _parse_judgment(judgment_text, ...) of CreativeWritingJudge: the fallback
\* result for a text that is no JSON, AttributeError (which the except clause
\* does not name) for a JSON list.
JudgeParseJudgment(judgment_data, about) ==
    IF judgment_data.kind = "not json"
    THEN [raised |-> FALSE, result |-> NeutralResult("Failed to parse judgment response")]
    ELSE IF judgment_data.kind = "list"
    THEN [raised |-> TRUE, result |-> NeutralResult("AttributeError")]
    ELSE [raised |-> FALSE,
          result |-> JudgeResult(OverallScoreOf(judgment_data),
                        judgment_data.criterion_scores, "parsed", about)]

\* judge_text(text, prompt, sampler_config) for the sample about: the parsed
\* response, or the fallback result when the API call or the parser raises.
JudgeText(about, api_call) ==
    IF api_call.failed THEN NeutralResult("Evaluation failed due to API error")
    ELSE IF JudgeParseJudgment(api_call.response, about).raised
    THEN NeutralResult("Evaluation failed due to API error")
    ELSE JudgeParseJudgment(api_call.response, about).result

\* The results of _parse_batch_judgment for an object: evaluation i becomes
\* result i, for at most size evaluations, and neutral results fill the rest.
\* sample_id is 1 for the first sample of the batch, the sample first of the
\* whole list.
ResultsByPosition(judgment_data, first, size) ==
    [k \in 1..size |->
        IF k <= Len(judgment_data.evaluations)
        THEN JudgeResult(OverallScoreOf(judgment_data.evaluations[k]),
                 judgment_data.evaluations[k].criterion_scores, "parsed",
                 first + judgment_data.evaluations[k].sample_id - 1)
        ELSE NeutralResult("Incomplete batch response")]

\* _parse_batch_judgment(judgment_text, batch_samples, ...) for the size
\* samples from the sample first on: neutral results for a text that is no
\* JSON; AttributeError for a JSON list and for an evaluation among the first
\* size that is no object.
ParseBatchJudgment(judgment_data, first, size) ==
    IF judgment_data.kind = "not json"
    THEN [raised |-> FALSE,
          results |-> [k \in 1..size |-> NeutralResult("Batch parsing failed")]]
    ELSE IF \/ judgment_data.kind = "list"
            \/ \E i \in DOMAIN judgment_data.evaluations :
                  i <= size /\ judgment_data.evaluations[i].kind # "object"
    THEN [raised |-> TRUE, results |-> <<>>]
    ELSE [raised |-> FALSE, results |-> ResultsByPosition(judgment_data, first, size)]

\* One iteration of the loop of judge_batch over the size samples from first
\* on: the results of the batch call, or those of one judge_text call per
\* sample when the batch call or its parser raises.
JudgeOneBatch(first, size, api_call, single_calls) ==
    IF api_call.failed \/ ParseBatchJudgment(api_call.response, first, size).raised
    THEN [k \in 1..size |-> JudgeText(first + k - 1, single_calls[k])]
    ELSE ParseBatchJudgment(api_call.response, first, size).results

\* ------------------------------------- judge_results.py: judging a results file
\* A sample of the results file: its sample_id, and whether generated_text
\* is a text (the text of sample i is text i) or None.
FileSample(sample_id, has_text) == [sample_id |-> sample_id, has_text |-> has_text]

\* valid_samples (line 95), and batch_samples, which keeps their order
ValidSamples(file) == SelectSeq(file.samples, LAMBDA sample : sample.has_text)

\* None, and the result of a judge for the text of the sample about.
NoneJudgment == [is_none |-> TRUE, about |-> 0, keys |-> {}]
JudgmentAbout(about) == [is_none |-> FALSE, about |-> about, keys |-> {}]

\* judgment_data (lines 204-244): the dict written for a judgment, with the
\* keys of the multi-judge or of the single-judge structure.
JudgmentData(type, judgment) ==
    [is_none |-> FALSE, about |-> judgment.about,
     keys |-> IF type = "multi_judge"
              THEN {"overall_score", "overall_std", "criterion_scores", "summary",
                    "evaluation_time", "judge_models", "judge_count",
                    "consensus_method", "individual_results", "judged_at"}
              ELSE {"overall_score", "criterion_scores", "summary",
                    "evaluation_time", "model_used", "judged_at"}]

\* enhanced_sample: the original sample with its 'judgment'.
EnhancedSample(sample, judgment) ==
    [sample_id |-> sample.sample_id, judgment |-> judgment]

\* The parameters of QualityAggregator.add_sample, the class of that name
\* defined last in quality_aggregator.py (line 493), and the keyword
\* arguments of the call of lines 255-262: the call raises TypeError.
AddSampleParameters ==
    {"prompt", "sampler_name", "sampler_config", "generated_text", "judgment"}
AddSampleKeywords ==
    {"prompt", "sampler_name", "sampler_config", "generated_text", "judgment",
     "repetition"}
AddSampleRaises == ~(AddSampleKeywords \subseteq AddSampleParameters)

\* The attributes of that class: get_enhanced_benchmark_results is none.
AggregatorMethods ==
    {"add_sample", "calculate_quality_stats", "get_quality_ranking",
     "_get_best_criterion"}

\* Lines 177-181: the judgments of multi-judge mode without the None entries.
ValidJudgments(type, judgments) ==
    IF type = "multi_judge"
    THEN SelectSeq(judgments, LAMBDA judgment : ~judgment.is_none)
    ELSE judgments

\* Lines 194-277: the loop over zip(judgments, batch_samples), which appends
\* the enhanced sample before it calls add_sample, and the except clause,
\* which counts every valid sample as a failure and appends every valid
\* sample without a judgment to what the loop has appended.
ProcessJudgments(type, judgments, valid_samples) ==
    LET paired == IF Len(judgments) < Len(valid_samples)
                  THEN Len(judgments) ELSE Len(valid_samples)
        enhanced(k) ==
            EnhancedSample(valid_samples[k], JudgmentData(type, judgments[k]))
        unjudged == [k \in 1..Len(valid_samples) |->
                        EnhancedSample(valid_samples[k], NoneJudgment)]
    IN  IF paired = 0
        THEN [judged_samples |-> <<>>, evaluation_failures |-> 0]
        ELSE IF AddSampleRaises
        THEN [judged_samples |-> <<enhanced(1)>> \o unjudged,
              evaluation_failures |-> Len(valid_samples)]
        ELSE [judged_samples |-> [k \in 1..paired |-> enhanced(k)],
              evaluation_failures |-> 0]

\* How judge_benchmark_results ends after it has written the file: the
\* success rate of line 372 divides by len(valid_samples).
ReturnedAfterSaving(valid_samples) ==
    IF Len(valid_samples) = 0 THEN "ZeroDivisionError" ELSE "path"

\* enhanced_results as written (lines 280-352), and how the call ended.
NoEnhancedResults ==
    [saved |-> FALSE, samples |-> <<>>, total_samples |-> 0,
     successfully_judged |-> 0, judgment_failures |-> 0,
     has_statistics |-> FALSE, returned |-> "nothing"]
EnhancedResults(samples, failures, valid_samples) ==
    [saved |-> TRUE,
     samples |-> samples,
     total_samples |-> Len(valid_samples),
     successfully_judged |-> Len(valid_samples) - failures,
     judgment_failures |-> failures,
     has_statistics |-> "get_enhanced_benchmark_results" \in AggregatorMethods,
     returned |-> ReturnedAfterSaving(valid_samples)]

\* ------------------------------------------------------- judge responses
\* Response bodies: well-formed records, near-valid records, values of the
\* wrong shape, prose with and without score mentions, unbalanced braces.
FullRecord ==
    <<"{", "q:criterion_scores", "{", "q:narrative_structure", "{", "q:score",
      "7", "}", "}", ",", "q:overall_score", "7", "}">>
OverallOnly == <<"{", "q:overall_score", "8", "}">>

ResponseBodies ==
    {<<>>,
     FullRecord,
     OverallOnly,
     <<"{", "q:overall_score", "15", "}">>,
     <<"{", "q:overall_score", "0", "}">>,
     <<"{", "q:overall_score", "str:abc", "}">>,
     <<"{", "q:overall_score", "str:7", "}">>,
     <<"{", "q:overall_score", "null", "}">>,
     <<"{", "q:criterion_scores", "{", "q:narrative_structure", "7", "}", "}">>,
     <<"{", "q:criterion_scores", "{", "q:pacing", "{", "q:score", "15", "}", "}", "}">>,
     <<"{", "q:criterion_scores", "{", "q:narrative_structure", "{", "}", "}", "}">>,
     <<"{", "q:criterion_scores", "7", "}">>,
     <<"{", "q:score", "7", "}">>,
     <<"{", "b:overall_score", "7", "}">>,
     <<"{", "s:overall_score", "8", "}">>,
     <<"{", "q:overall_score", "7", ",", "}">>,
     <<"{", "q:overall_score", "7">>,
     <<"{", "q:score", "7", "}", "{", "q:overall_score", "8", "}">>,
     <<"}", "{">>,
     <<"[1,2]">>,
     <<"7">>,
     <<"word", "word">>,
     <<"word", "7/10", ",", "word">>,
     <<"7/10", "word", "8/10">>,
     <<"15/10">>,
     <<"0/10">>}

WrapLexemes == {"tick", "fence", "fence_json", "word", "7/10", "{"}

\* The runs of at most MaxWrap lexemes around a body.
Wraps == UNION {[1..k -> WrapLexemes] : k \in 0..MaxWrap}

\* The contents a judge response can have: None, or a text.
JudgmentTexts ==
    {NoneContent} \cup
    {TextContent(a \o b \o c) : a \in Wraps, b \in ResponseBodies, c \in Wraps}

\* The contents the judges of the dispatcher answer with: a full record, a
\* record with an overall score only, prose without a record, a JSON list.
JudgeContents ==
    {TextContent(FullRecord), TextContent(OverallOnly),
     TextContent(<<"word">>), TextContent(<<"[1,2]">>)}

\* ------------------------------------------------------------------ state
VARIABLES
    judge_models,        \* self.judge_models, the configured judges
    pc,                  \* where evaluate_text is: idle, collecting, done
    work_queue,          \* submitted tasks no worker has taken yet
    phase,               \* per judge: queued, calling, silent, finished, collected
    call,                \* per judge: what the API call did
    future,              \* per judge: the result of its future
    individual_results,  \* the list _get_parallel_judgments builds
    verdict,             \* the MultiJudgeResult evaluate_text returns
    judgment_text,       \* the argument of a direct _parse_judgment call
    parser_pc,           \* ready, returned
    parsed,              \* the outcome of that call
    samples,             \* EnhancedQualityAggregator.samples
    agg_pc,              \* the aggregator's caller: off, adding, reporting
    benchmark_results,   \* what get_enhanced_benchmark_results returned last
    clock,               \* the time shown by time.strftime
    interval_scores,     \* the scores of a calculate_confidence_interval call
    interval,            \* what that call returned, None before it
    data,                \* judge_results.py: the samples of the loaded results file
    judge_type,          \* multi_judge or single_judge, what create_judge returned
    script_pc,           \* where judge_benchmark_results is
    judgments,           \* its list judgments
    pending,             \* the futures as_completed has not yielded yet
    judged_samples,      \* its list judged_samples
    evaluation_failures, \* its counter evaluation_failures
    enhanced_results,    \* the file it wrote and how the call ended
    batch,               \* llm_judge.py: the samples and batch_size of judge_batch
    batch_start,         \* the start of the next batch of judge_batch
    all_results,         \* its list all_results
    batch_pc,            \* off, judging, returned
    reply,               \* the text a direct _parse_judgment call is given
    reply_pc,            \* off, ready, returned
    judgment_result      \* what that call returned or raised

vars ==
    <<judge_models, pc, work_queue, phase, call, future, individual_results,
      verdict, judgment_text, parser_pc, parsed, samples, agg_pc,
      benchmark_results, clock, interval_scores, interval, data, judge_type,
      script_pc, judgments, pending, judged_samples, evaluation_failures,
      enhanced_results, batch, batch_start, all_results, batch_pc, reply,
      reply_pc, judgment_result>>

dispatcher_vars ==
    <<judge_models, pc, work_queue, phase, call, future, individual_results,
      verdict>>
parser_vars == <<judgment_text, parser_pc, parsed>>
aggregator_vars == <<samples, agg_pc, benchmark_results, clock>>
interval_vars == <<interval_scores, interval>>
statistics_vars == <<aggregator_vars, interval_vars>>
script_vars ==
    <<data, judge_type, script_pc, judgments, pending, judged_samples,
      evaluation_failures, enhanced_results>>
batch_vars == <<batch, batch_start, all_results, batch_pc>>
reply_vars == <<reply, reply_pc, judgment_result>>
pipeline_vars == <<script_vars, batch_vars, reply_vars>>

Judges == 1..Len(judge_models)

\* No aggregator and no interval call: the state of the statistics variables
\* in a run of the judges.
NoInterval == [returned |-> FALSE, low |-> 0, high |-> 0]
StatisticsOff ==
    /\ samples = <<>>
    /\ agg_pc = "off"
    /\ benchmark_results = NoBenchmarkResults
    /\ clock = 0
    /\ interval_scores = <<>>
    /\ interval = NoInterval

\* No run of the script, of judge_batch or of the single-judge parser.
NoBatch == [samples |-> 0, batch_size |-> 1]
NoCallOutcome == [raised |-> FALSE, result |-> NeutralResult("no call")]
ScriptOff ==
    /\ data = [readable |-> FALSE, samples |-> <<>>]
    /\ judge_type = "none"
    /\ script_pc = "off"
    /\ judgments = <<>>
    /\ pending = {}
    /\ judged_samples = <<>>
    /\ evaluation_failures = 0
    /\ enhanced_results = NoEnhancedResults
BatchOff ==
    /\ batch = NoBatch
    /\ batch_start = 0
    /\ all_results = <<>>
    /\ batch_pc = "off"
ReplyOff ==
    /\ reply = NotJson
    /\ reply_pc = "off"
    /\ judgment_result = NoCallOutcome
PipelineOff == ScriptOff /\ BatchOff /\ ReplyOff

NoCall == [status |-> "none", content |-> NoneContent]
NoResult == CreateFallbackResult(0, "no result")
NoVerdict == MultiJudgeResult(<<>>, <<NoResult>>)

\* min(len(self.judge_models), 5)
PoolSize ==
    IF Len(judge_models) < MaxPoolWorkers THEN Len(judge_models) ELSE MaxPoolWorkers

\* A pool in which the worker of a failed judge is never released.
BusyWorkersKeepingFailed ==
    Cardinality({j \in Judges :
        \/ phase[j] \in {"calling", "silent"}
        \/ phase[j] \in {"finished", "collected"} /\ future[j].error # NoError})

\* The workers inside _single_judge_evaluation.
BusyWorkers == Cardinality({j \in Judges : phase[j] \in {"calling", "silent"}})

\* With more judges than MaxJudges the judges are limited to one failing or
\* silent judge and one response content, to bound the state space.
ManyJudges == Len(judge_models) > MaxJudges
NoOtherTrouble(j) ==
    ManyJudges =>
        \A i \in Judges \ {j} : call[i].status \in {"none", "in flight", "content"}

\* _single_judge_evaluation(model, ...) once the API call has returned
\* content: the parsed opinion, or the fallback result when _parse_judgment
\* raises (except Exception).
SingleJudgeEvaluation(model, content) ==
    IF ParseJudgment(content, model).raised
    THEN CreateFallbackResult(model, "parse exception")
    ELSE ParseJudgment(content, model).opinion

\* A collector that keeps only the results of judges that did not fail.
CollectedDroppingFailures(results, result) ==
    IF result.error # NoError THEN results ELSE Append(results, result)

\* individual_results.append(result)
Collected(results, result) == Append(results, result)

Init ==
    /\ \E n \in (1..MaxJudges) \cup {MaxPoolWorkers + 1} :
          /\ judge_models = [i \in 1..n |-> i]
          /\ phase = [i \in 1..n |-> "idle"]
          /\ call = [i \in 1..n |-> NoCall]
          /\ future = [i \in 1..n |-> NoResult]
    /\ pc = "idle"
    /\ work_queue = <<>>
    /\ individual_results = <<>>
    /\ verdict = NoVerdict
    /\ judgment_text = NoneContent
    /\ parser_pc = "off"
    /\ parsed = Raised(0)
    /\ StatisticsOff
    /\ PipelineOff

\* evaluate_text -> _get_parallel_judgments: every judge is submitted to the
\* executor, in the order of judge_models.
SubmitAll ==
    /\ pc = "idle"
    /\ pc' = "collecting"
    /\ work_queue' = judge_models
    /\ phase' = [j \in Judges |-> "queued"]
    /\ individual_results' = <<>>
    /\ UNCHANGED <<judge_models, call, future, verdict, parser_vars, statistics_vars, pipeline_vars>>

\* A free worker takes the next task and sends the request
\* (client.chat.completions.create).
WorkerStartsCall ==
    /\ pc = "collecting"
    /\ work_queue # <<>>
    /\ BusyWorkers < PoolSize
    /\ phase' = [phase EXCEPT ![Head(work_queue)] = "calling"]
    /\ call' = [call EXCEPT ![Head(work_queue)] =
                    [status |-> "in flight", content |-> NoneContent]]
    /\ work_queue' = Tail(work_queue)
    /\ UNCHANGED <<judge_models, pc, future, individual_results, verdict,
                   parser_vars, statistics_vars, pipeline_vars>>

\* The call returns a response; the worker parses it and returns the result.
JudgeResponds(j, content) ==
    /\ phase[j] = "calling"
    /\ ManyJudges => content = TextContent(FullRecord)
    /\ call' = [call EXCEPT ![j] = [status |-> "content", content |-> content]]
    /\ future' = [future EXCEPT ![j] = SingleJudgeEvaluation(judge_models[j], content)]
    /\ phase' = [phase EXCEPT ![j] = "finished"]
    /\ UNCHANGED <<judge_models, pc, work_queue, individual_results, verdict,
                   parser_vars, statistics_vars, pipeline_vars>>

\* The call raises (HTTP error, connection error); the worker returns the
\* fallback result (lines 334-337).
JudgeCallRaises(j) ==
    /\ phase[j] = "calling"
    /\ NoOtherTrouble(j)
    /\ call' = [call EXCEPT ![j] = [status |-> "exception", content |-> NoneContent]]
    /\ future' = [future EXCEPT ![j] = CreateFallbackResult(judge_models[j], "api error")]
    /\ phase' = [phase EXCEPT ![j] = "finished"]
    /\ UNCHANGED <<judge_models, pc, work_queue, individual_results, verdict,
                   parser_vars, statistics_vars, pipeline_vars>>

\* The judge never answers.  The request carries no timeout argument and
\* future.result() and as_completed() are called without one, so no step of
\* the program ends the call.
JudgeStaysSilent(j) ==
    /\ phase[j] = "calling"
    /\ NoOtherTrouble(j)
    /\ call' = [call EXCEPT ![j] = [status |-> "silent", content |-> NoneContent]]
    /\ phase' = [phase EXCEPT ![j] = "silent"]
    /\ UNCHANGED <<judge_models, pc, work_queue, future, individual_results, verdict,
                   parser_vars, statistics_vars, pipeline_vars>>

\* as_completed yields a finished future and its result is appended.  The
\* except branch of the loop is never taken: _single_judge_evaluation catches
\* every Exception itself.
CollectResult(j) ==
    /\ pc = "collecting"
    /\ phase[j] = "finished"
    /\ individual_results' = Collected(individual_results, future[j])
    /\ phase' = [phase EXCEPT ![j] = "collected"]
    /\ UNCHANGED <<judge_models, pc, work_queue, call, future, verdict,
                   parser_vars, statistics_vars, pipeline_vars>>

\* Every future has been yielded: _get_parallel_judgments returns and
\* evaluate_text builds the MultiJudgeResult.
ReturnVerdict ==
    /\ pc = "collecting"
    /\ \A j \in Judges : phase[j] = "collected"
    /\ verdict' = MultiJudgeResult(judge_models, individual_results)
    /\ pc' = "done"
    /\ UNCHANGED <<judge_models, work_queue, phase, call, future, individual_results,
                   parser_vars, statistics_vars, pipeline_vars>>

Next ==
    \/ SubmitAll
    \/ WorkerStartsCall
    \/ \E j \in Judges : \E content \in JudgeContents : JudgeResponds(j, content)
    \/ \E j \in Judges : JudgeCallRaises(j)
    \/ \E j \in Judges : JudgeStaysSilent(j)
    \/ \E j \in Judges : CollectResult(j)
    \/ ReturnVerdict

Spec == Init /\ [][Next]_vars

\* Some step of Next is possible: the disjunction of the guards of its actions.
SomeStepPossible ==
    \/ pc = "idle"
    \/ pc = "collecting" /\ work_queue # <<>> /\ BusyWorkers < PoolSize
    \/ \E j \in Judges : phase[j] = "calling"
    \/ pc = "collecting" /\ \E j \in Judges : phase[j] = "finished"
    \/ pc = "collecting" /\ \A j \in Judges : phase[j] = "collected"

\* --------------------------------------- _parse_judgment called on a text
ParserInit ==
    /\ judge_models = <<1>>
    /\ phase = [i \in 1..1 |-> "idle"]
    /\ call = [i \in 1..1 |-> NoCall]
    /\ future = [i \in 1..1 |-> NoResult]
    /\ pc = "off"
    /\ work_queue = <<>>
    /\ individual_results = <<>>
    /\ verdict = NoVerdict
    /\ judgment_text \in JudgmentTexts
    /\ parser_pc = "ready"
    /\ parsed = Raised(0)
    /\ StatisticsOff
    /\ PipelineOff

CallParseJudgment ==
    /\ parser_pc = "ready"
    /\ parsed' = ParseJudgment(judgment_text, 1)
    /\ parser_pc' = "returned"
    /\ UNCHANGED <<dispatcher_vars, judgment_text, statistics_vars, pipeline_vars>>

ParserNext == CallParseJudgment

ParserSpec == ParserInit /\ [][ParserNext]_vars

\* ------------------------- evaluate_text on a given list of judge opinions
\* The scores of the opinions, all within the 1-10 scale.
ConsensusScores == {1 * Scale, 6 * Scale, 7 * Scale, 8 * Scale, 10 * Scale}

\* An opinion that gives the score s overall and to every criterion it
\* scores: the whole catalog, or only the criteria a partial response named.
PartialCriteria == {"narrative_structure", "prose_quality"}
Opinion(s, whole) ==
    [judge_model |-> 0,
     overall_score |-> s,
     criterion_scores |->
        [c \in (IF whole THEN Criteria ELSE PartialCriteria) |->
            [score |-> s, reasoning |-> "No reasoning provided"]],
     summary |-> "No summary provided",
     error |-> NoError]
Opinions == {Opinion(s, whole) : s \in ConsensusScores, whole \in BOOLEAN}

ConsensusInit ==
    /\ \E n \in 1..MaxJudges :
          /\ judge_models = [i \in 1..n |-> i]
          /\ phase = [i \in 1..n |-> "collected"]
          /\ call = [i \in 1..n |-> NoCall]
          /\ future = [i \in 1..n |-> NoResult]
          /\ \E given \in [1..n -> Opinions] :
                individual_results =
                    [i \in 1..n |-> [given[i] EXCEPT !.judge_model = i]]
    /\ pc = "consensus"
    /\ work_queue = <<>>
    /\ verdict = NoVerdict
    /\ judgment_text = NoneContent
    /\ parser_pc = "off"
    /\ parsed = Raised(0)
    /\ StatisticsOff
    /\ PipelineOff

\* evaluate_text from line 247 on: the consensus per criterion, the overall
\* mean and deviation, the returned MultiJudgeResult.
EvaluateConsensus ==
    /\ pc = "consensus"
    /\ verdict' = MultiJudgeResult(judge_models, individual_results)
    /\ pc' = "consensus done"
    /\ UNCHANGED <<judge_models, work_queue, phase, call, future, individual_results,
                   parser_vars, statistics_vars, pipeline_vars>>

ConsensusNext == EvaluateConsensus

ConsensusSpec == ConsensusInit /\ [][ConsensusNext]_vars

\* ----------------------------------- an EnhancedQualityAggregator in use
\* The judge variables in a run without judges.
JudgingOff ==
    /\ judge_models = <<1>>
    /\ phase = [i \in 1..1 |-> "idle"]
    /\ call = [i \in 1..1 |-> NoCall]
    /\ future = [i \in 1..1 |-> NoResult]
    /\ pc = "off"
    /\ work_queue = <<>>
    /\ individual_results = <<>>
    /\ verdict = NoVerdict
    /\ judgment_text = NoneContent
    /\ parser_pc = "off"
    /\ parsed = Raised(0)

\* The samplers and prompts of a benchmark and the overall scores of its
\* judgments; no step between the judge and the aggregator keeps a score
\* within the 1-10 scale.
SamplerNames == <<"greedy", "top_p", "min_p">>
PromptNames == <<"p1", "p2">>
AggregatorScores == <<7 * Scale, 8 * Scale, 30 * Scale, 0 * Scale>>

\* The samples add_sample is called with, numbered 100 * sampler + 10 * prompt
\* + score: greedy and top_p run on both prompts, min_p run on the first
\* prompt with the lowest score, without a judgment or with the consensus of
\* two judges, and on the second prompt with the score 0.0.
SampleRanks == {111, 112, 113, 121, 123, 212, 213, 223, 311, 324}
SampleChoices ==
    LET judged(i, j, k) ==
            JudgmentSample(PromptNames[j], SamplerNames[i],
                JudgmentResult(AggregatorScores[k],
                    <<[criterion |-> "prose_quality", score |-> AggregatorScores[k]]>>))
    IN  [rank \in SampleRanks |->
            judged(rank \div 100, (rank % 100) \div 10, rank % 10)]
        @@ (314 :> JudgmentSample(PromptNames[1], SamplerNames[3], NoJudgment))
        @@ (315 :> JudgmentSample(PromptNames[1], SamplerNames[3],
                        ConsensusJudgment(<<Opinion(7 * Scale, FALSE),
                                            Opinion(8 * Scale, FALSE)>>)))
RankOf(sample) == CHOOSE rank \in DOMAIN SampleChoices : SampleChoices[rank] = sample

\* time.strftime at a call: later than at the call before, up to MaxClock.
Later(time) == IF time < MaxClock THEN time + 1 ELSE time

AggregatorInit ==
    /\ JudgingOff
    /\ PipelineOff
    /\ samples = <<>>
    /\ agg_pc = "adding"
    /\ benchmark_results = NoBenchmarkResults
    /\ clock = 0
    /\ interval_scores = <<>>
    /\ interval = NoInterval

\* add_sample(prompt, sampler_name, ..., judgment).  The caller adds sampler
\* by sampler, prompt by prompt, the repetitions of a group by ascending
\* score, and adds nothing after it has asked for the results.
AddSample(sample) ==
    /\ agg_pc = "adding"
    /\ Len(samples) < MaxSamples
    /\ samples # <<>> => RankOf(samples[Len(samples)]) <= RankOf(sample)
    /\ samples' = Append(samples, sample)
    /\ UNCHANGED <<dispatcher_vars, parser_vars, agg_pc, benchmark_results, clock,
                   interval_vars, pipeline_vars>>

\* The handler without its result: self.samples is read and never assigned.
GetResultsConsumingSamples ==
    /\ agg_pc \in {"adding", "reporting"}
    /\ benchmark_results' = EnhancedBenchmarkResults(samples, Later(clock))
    /\ clock' = Later(clock)
    /\ agg_pc' = "reporting"
    /\ samples' = <<>>
    /\ UNCHANGED <<dispatcher_vars, parser_vars, interval_vars, pipeline_vars>>

\* get_enhanced_benchmark_results(): the results of the samples added so
\* far, stamped with the time of the call.
GetEnhancedBenchmarkResults ==
    /\ agg_pc \in {"adding", "reporting"}
    /\ benchmark_results' = EnhancedBenchmarkResults(samples, Later(clock))
    /\ clock' = Later(clock)
    /\ agg_pc' = "reporting"
    /\ UNCHANGED <<dispatcher_vars, parser_vars, samples, interval_vars, pipeline_vars>>

AggregatorNext ==
    \/ \E rank \in DOMAIN SampleChoices : AddSample(SampleChoices[rank])
    \/ GetEnhancedBenchmarkResults

AggregatorSpec == AggregatorInit /\ [][AggregatorNext]_vars

\* ------------------------- calculate_confidence_interval called on scores
\* Score lists of every length up to MaxScores: some scores low, the rest high.
LowAndHigh == {<<6 * Scale, 8 * Scale>>, <<7 * Scale, 8 * Scale>>, <<7 * Scale, 7 * Scale>>}

IntervalInit ==
    /\ JudgingOff
    /\ PipelineOff
    /\ samples = <<>>
    /\ agg_pc = "off"
    /\ benchmark_results = NoBenchmarkResults
    /\ clock = 0
    /\ \E n \in 0..MaxScores : \E lows \in 0..n : \E pair \in LowAndHigh :
          interval_scores = [i \in 1..n |-> IF i <= lows THEN pair[1] ELSE pair[2]]
    /\ interval = NoInterval

CalculateConfidenceInterval ==
    /\ ~interval.returned
    /\ interval' = [returned |-> TRUE,
                    low |-> ConfidenceInterval(interval_scores)[1],
                    high |-> ConfidenceInterval(interval_scores)[2]]
    /\ UNCHANGED <<dispatcher_vars, parser_vars, aggregator_vars, interval_scores,
                   pipeline_vars>>

IntervalNext == CalculateConfidenceInterval

IntervalSpec == IntervalInit /\ [][IntervalNext]_vars

\* ------------------------------------- judge_benchmark_results on a file
\* The results files: unreadable, or with up to MaxFileSamples samples, each
\* with a generated text or with None.
ResultsFiles ==
    {[readable |-> FALSE, samples |-> <<>>]} \cup
    {[readable |-> TRUE,
      samples |-> [i \in 1..n |-> FileSample(i, i \in with_text)]] :
        n \in 0..MaxFileSamples, with_text \in SUBSET (1..MaxFileSamples)}

\* The API calls of the single judge: a call that raises, and a response.
FailedCall == [failed |-> TRUE, response |-> NotJson]
Responded(response) == [failed |-> FALSE, response |-> response]

\* batch_size=5 of the judge_batch call
ScriptBatchSize == 5

\* The batch responses the single judge of the script gets: none (the call
\* raises), or one evaluation per sample in the order of the samples.
ScriptBatchCalls(n) ==
    {FailedCall,
     Responded(BatchObject([k \in 1..n |-> Evaluation(k, TRUE, 7 * Scale, <<>>)]))}

ScriptInit ==
    /\ JudgingOff
    /\ StatisticsOff
    /\ BatchOff
    /\ ReplyOff
    /\ data \in ResultsFiles
    /\ judge_type \in {"multi_judge", "single_judge"}
    /\ script_pc = "start"
    /\ judgments = <<>>
    /\ pending = {}
    /\ judged_samples = <<>>
    /\ evaluation_failures = 0
    /\ enhanced_results = NoEnhancedResults

outside_script_vars == <<dispatcher_vars, parser_vars, statistics_vars, batch_vars, reply_vars>>

\* Lines 56-63: load_benchmark_results; a file that cannot be loaded ends the
\* call with None.
LoadBenchmarkResults ==
    /\ script_pc = "start"
    /\ script_pc' = IF data.readable THEN "loaded" ELSE "done"
    /\ enhanced_results' =
          IF data.readable THEN enhanced_results
          ELSE [enhanced_results EXCEPT !.returned = "None"]
    /\ UNCHANGED <<data, judge_type, judgments, pending, judged_samples,
                   evaluation_failures, outside_script_vars>>

\* Lines 143-168, multi-judge mode: judgments is pre-allocated with None and
\* every sample is submitted to the executor.
SubmitSamples ==
    /\ script_pc = "loaded"
    /\ judge_type = "multi_judge"
    /\ judgments' = [k \in 1..Len(ValidSamples(data)) |-> NoneJudgment]
    /\ pending' = 1..Len(ValidSamples(data))
    /\ script_pc' = "evaluating"
    /\ UNCHANGED <<data, judge_type, judged_samples, evaluation_failures,
                   enhanced_results, outside_script_vars>>

\* Lines 148-160 and 171-175: as_completed yields the future of sample
\* index, whose evaluate_sample returned the judgment of the sample's text,
\* or None after an exception of evaluate_text.
EvaluationCompletes(index, succeeded) ==
    /\ script_pc = "evaluating"
    /\ index \in pending
    /\ judgments' =
          [judgments EXCEPT ![index] =
              IF succeeded
              THEN JudgmentAbout(ValidSamples(data)[index].sample_id)
              ELSE NoneJudgment]
    /\ pending' = pending \ {index}
    /\ UNCHANGED <<data, judge_type, script_pc, judged_samples,
                   evaluation_failures, enhanced_results, outside_script_vars>>

\* Lines 183-190, single-judge mode: judge_batch with batch_size 5 on all
\* samples (one batch for up to 5 samples); its results are those of the
\* samples of the same positions.
JudgeBatchOfScript(api_call, single_calls) ==
    /\ script_pc = "loaded"
    /\ judge_type = "single_judge"
    /\ Len(ValidSamples(data)) <= ScriptBatchSize
    /\ LET n == Len(ValidSamples(data))
           results == JudgeOneBatch(1, n, api_call, single_calls)
       IN  judgments' =
              [k \in 1..n |->
                  JudgmentAbout(IF results[k].about = 0 THEN 0
                                ELSE ValidSamples(data)[results[k].about].sample_id)]
    /\ script_pc' = "evaluated"
    /\ UNCHANGED <<data, judge_type, pending, judged_samples,
                   evaluation_failures, enhanced_results, outside_script_vars>>

\* Lines 177-277: the None entries are filtered out and the judgments are
\* processed.
ProcessTheJudgments ==
    /\ \/ script_pc = "evaluating" /\ pending = {}
       \/ script_pc = "evaluated"
    /\ LET processed ==
               ProcessJudgments(judge_type, ValidJudgments(judge_type, judgments),
                                ValidSamples(data))
       IN  /\ judgments' = ValidJudgments(judge_type, judgments)
           /\ judged_samples' = processed.judged_samples
           /\ evaluation_failures' = processed.evaluation_failures
    /\ script_pc' = "processed"
    /\ UNCHANGED <<data, judge_type, pending, enhanced_results, outside_script_vars>>

\* Lines 279-411: the enhanced results are written and the path returned.
SaveEnhancedResults ==
    /\ script_pc = "processed"
    /\ enhanced_results' =
          EnhancedResults(judged_samples, evaluation_failures, ValidSamples(data))
    /\ script_pc' = "done"
    /\ UNCHANGED <<data, judge_type, judgments, pending, judged_samples,
                   evaluation_failures, outside_script_vars>>

ScriptNext ==
    \/ LoadBenchmarkResults
    \/ SubmitSamples
    \/ \E index \in pending : \E succeeded \in BOOLEAN :
          EvaluationCompletes(index, succeeded)
    \/ \E api_call \in ScriptBatchCalls(Len(ValidSamples(data))) :
       \E single_calls \in [1..Len(ValidSamples(data)) ->
                               {FailedCall, Responded(Evaluation(0, TRUE, 7 * Scale, <<>>))}] :
          JudgeBatchOfScript(api_call, single_calls)
    \/ ProcessTheJudgments
    \/ SaveEnhancedResults

ScriptSpec == ScriptInit /\ [][ScriptNext]_vars

\* --------------------------------------------- judge_batch on a sample list
\* The evaluations a batch response can hold for a batch of size samples: an
\* evaluation for any sample of the batch, by its sample_id, or an entry that
\* is no object; up to one evaluation more than there are samples.
BatchEntries(size) ==
    {Evaluation(sample_id, TRUE, 7 * Scale, <<>>) : sample_id \in 1..size}
        \cup {MalformedEntry}
BatchCalls(size) ==
    {FailedCall, Responded(NotJson), Responded(JsonList)} \cup
    {Responded(BatchObject(evaluations)) :
        evaluations \in UNION {[1..n -> BatchEntries(size)] : n \in 0..(size + 1)}}

\* The outcomes of the judge_text call made for one sample of a batch that
\* could not be evaluated as a whole.
SingleCalls ==
    {FailedCall, Responded(NotJson), Responded(JsonList),
     Responded(Evaluation(0, TRUE, 7 * Scale, <<>>))}

BatchInit ==
    /\ JudgingOff
    /\ StatisticsOff
    /\ ScriptOff
    /\ ReplyOff
    /\ \E n \in 0..MaxBatchSamples : \E size \in 1..MaxBatchSamples :
          batch = [samples |-> n, batch_size |-> size]
    /\ batch_start = 0
    /\ all_results = <<>>
    /\ batch_pc = "judging"

\* samples[batch_start:batch_end] of the loop of judge_batch
BatchLength ==
    IF batch_start + batch.batch_size < batch.samples
    THEN batch.batch_size ELSE batch.samples - batch_start

\* Whether the batch call leaves the batch to the judge_text calls.
FallsBack(api_call) ==
    api_call.failed \/ ParseBatchJudgment(api_call.response, batch_start + 1, BatchLength).raised

\* One iteration of the loop of judge_batch (lines 251-314).
JudgeNextBatch(api_call, single_calls) ==
    /\ batch_pc = "judging"
    /\ batch_start < batch.samples
    /\ all_results' =
          all_results \o JudgeOneBatch(batch_start + 1, BatchLength, api_call, single_calls)
    /\ batch_start' = batch_start + batch.batch_size
    /\ UNCHANGED <<batch, batch_pc, dispatcher_vars, parser_vars, statistics_vars,
                   script_vars, reply_vars>>

\* return all_results
ReturnAllResults ==
    /\ batch_pc = "judging"
    /\ batch_start >= batch.samples
    /\ batch_pc' = "returned"
    /\ UNCHANGED <<batch, batch_start, all_results, dispatcher_vars, parser_vars,
                   statistics_vars, script_vars, reply_vars>>

BatchNext ==
    \/ \E api_call \in BatchCalls(BatchLength) :
       \E single_calls \in
             (IF FallsBack(api_call) THEN [1..BatchLength -> SingleCalls]
              ELSE {[k \in 1..BatchLength |-> FailedCall]}) :
          JudgeNextBatch(api_call, single_calls)
    \/ ReturnAllResults

BatchSpec == BatchInit /\ [][BatchNext]_vars

\* ------------------------------- the single judge's _parse_judgment on a text
\* The criterion_scores of a response: up to two criteria of the catalog or
\* outside it, each scored 5.0 or 8.0.
ReplyCriteria == {"narrative_coherence", "stylistic_quality", "pacing"}
ReplyCriterionScores ==
    {<<>>} \cup
    {<<[criterion |-> c, score |-> s]>> :
        c \in ReplyCriteria, s \in {NeutralScore, 8 * Scale}} \cup
    {<<[criterion |-> pair[1], score |-> s], [criterion |-> pair[2], score |-> t]>> :
        pair \in {q \in ReplyCriteria \X ReplyCriteria : q[1] # q[2]},
        s \in {NeutralScore, 8 * Scale}, t \in {NeutralScore, 8 * Scale}}

\* The responses: no JSON, a JSON list, and objects without an overall_score
\* or with the overall_score 0.0, 5.0 or 7.0.
Replies ==
    {NotJson, JsonList} \cup
    {Evaluation(0, FALSE, 0, criterion_scores) :
        criterion_scores \in ReplyCriterionScores} \cup
    {Evaluation(0, TRUE, overall_score, criterion_scores) :
        overall_score \in {0, NeutralScore, 7 * Scale},
        criterion_scores \in ReplyCriterionScores}

ReplyInit ==
    /\ JudgingOff
    /\ StatisticsOff
    /\ ScriptOff
    /\ BatchOff
    /\ reply \in Replies
    /\ reply_pc = "ready"
    /\ judgment_result = NoCallOutcome

CallJudgeParseJudgment ==
    /\ reply_pc = "ready"
    /\ judgment_result' = JudgeParseJudgment(reply, 0)
    /\ reply_pc' = "returned"
    /\ UNCHANGED <<reply, dispatcher_vars, parser_vars, statistics_vars,
                   script_vars, batch_vars>>

ReplyNext == CallJudgeParseJudgment

ReplySpec == ReplyInit /\ [][ReplyNext]_vars

\* ================================================================= claims
\* Helpers of the claims.
Results == verdict.individual_results
ResultIndexes == 1..Len(Results)
UnparsableContents == {TextContent(<<"word">>), TextContent(<<"[1,2]">>)}
CallFailed(j) ==
    \/ call[j].status = "exception"
    \/ call[j].status = "content" /\ call[j].content \in UnparsableContents
IsNeutralFailure(r) ==
    /\ r.error # NoError
    /\ r.overall_score = 5 * Scale
    /\ \A c \in Criteria :
          c \in DOMAIN r.criterion_scores /\ r.criterion_scores[c].score = 5 * Scale

\* The as_completed loop has yielded every future: _get_parallel_judgments
\* returns individual_results.
DispatcherReturns == pc # "idle" /\ \A j \in Judges : phase[j] = "collected"

\* C1: when _get_parallel_judgments returns, its list holds exactly one
\* result per configured judge, and the result of a judge whose call failed
\* (API exception or unparsable response) has 'error' set and the score 5.0
\* for overall and for every catalog criterion.
C1_OneResultPerJudge ==
    DispatcherReturns =>
        /\ Len(individual_results) = Len(judge_models)
        /\ \A j \in Judges :
              /\ Cardinality({i \in 1..Len(individual_results) :
                    individual_results[i].judge_model = judge_models[j]}) = 1
              /\ CallFailed(j) =>
                    \A i \in 1..Len(individual_results) :
                        individual_results[i].judge_model = judge_models[j]
                            => IsNeutralFailure(individual_results[i])

\* C1 witness: a returned evaluation of three judges of which one raised, one
\* answered with prose and one answered with a record.
C1_Witness ==
    /\ pc = "done"
    /\ Len(judge_models) = 3
    /\ \E a, b, c \in Judges :
          /\ call[a].status = "exception"
          /\ call[b].content = TextContent(<<"word">>)
          /\ call[c].content = TextContent(FullRecord)

\* C2: _parse_judgment never raises, whatever the judge text is.
C2_ParserNeverRaises == parser_pc = "returned" => ~parsed.raised

InScoreRange(x) == 1 * Scale <= x /\ x <= 10 * Scale

\* C3: every opinion the parser returns has its overall_score and every
\* per-criterion score within [1,10].
C3_ScoresWithinRange ==
    (parser_pc = "returned" /\ ~parsed.raised) =>
        /\ InScoreRange(parsed.opinion.overall_score)
        /\ \A c \in DOMAIN parsed.opinion.criterion_scores :
              InScoreRange(parsed.opinion.criterion_scores[c].score)

\* Whether recovery strategy k (0: the whole-response parse) yields a record
\* for the text, and the record it yields.
Yields(k, text) == IF k = 0 THEN JsonLoads(text).ok ELSE Strategy(k, text).found
RecordOf(k, text) == IF k = 0 THEN JsonLoads(text).v ELSE Strategy(k, text).data
Yielding(text) == {k \in 0..4 : Yields(k, text)}

\* C4: the parser returns the result of the first strategy, in the order
\* whole response, code block, brace scan, repair, score mentions, that yields
\* a record; the result of a later strategy is never returned for a text on
\* which an earlier one succeeds.
C4_FirstStrategyWins ==
    (parser_pc = "returned" /\ ~judgment_text.is_none) =>
        LET text == judgment_text.text
        IN  IF Yielding(text) = {} THEN parsed.via = 5
            ELSE /\ parsed.via = MinOf(Yielding(text))
                 /\ parsed = BuildResult(RecordOf(MinOf(Yielding(text)), text), 1,
                                         MinOf(Yielding(text)))

\* C4 witness: the brace scan gave the result of a text on which the repair
\* and the score mentions would have yielded a record too.
C4_Witness ==
    /\ parser_pc = "returned"
    /\ ~judgment_text.is_none
    /\ parsed.via = 2
    /\ ~parsed.raised
    /\ Yields(3, judgment_text.text)
    /\ Yields(4, judgment_text.text)

\* C5: for a text on which no strategy yields a record the parser returns an
\* opinion with the score 5.0 for overall and every catalog criterion and the
\* error "Invalid JSON response"; and an opinion the parser returns carries
\* an error marker only in that case.
C5_ErrorOnlyOnTotalFailure ==
    (parser_pc = "returned" /\ ~judgment_text.is_none) =>
        /\ Yielding(judgment_text.text) = {} =>
              /\ ~parsed.raised
              /\ IsNeutralFailure(parsed.opinion)
              /\ parsed.opinion.error = "Invalid JSON response"
        /\ (~parsed.raised /\ parsed.opinion.error # NoError) =>
              Yielding(judgment_text.text) = {}

\* C5 witness: a text with braces on which every strategy fails, answered
\* with the neutral fallback opinion.
C5_Witness ==
    /\ parser_pc = "returned"
    /\ ~judgment_text.is_none
    /\ \E i \in 1..Len(judgment_text.text) : judgment_text.text[i] = "{"
    /\ ~parsed.raised
    /\ parsed.opinion.error = "Invalid JSON response"

\* The positions of the score mentions of a text and the sum of the scores.
MentionPositions(text) == {i \in 1..Len(text) : text[i] \in MentionLexemes}
RECURSIVE MentionTotal(_, _)
MentionTotal(text, positions) ==
    IF positions = {} THEN 0
    ELSE MentionValue(text[MinOf(positions)])
            + MentionTotal(text, positions \ {MinOf(positions)})
\* No structured payload: the text is no JSON value and holds no opening brace
\* with a closing brace after it.
NoStructuredPayload(text) ==
    /\ ~JsonLoads(text).ok
    /\ ~\E i, k \in 1..Len(text) : i < k /\ text[i] = "{" /\ text[k] = "}"
ExampleText == <<"word", "7/10", ",", "word">>

\* C6: for a text with no structured payload and one or more N/10 mentions the
\* parser returns the arithmetic mean of the mentioned numbers (to the
\* resolution of the fixed-point scores) as overall_score and as the score of
\* every catalog criterion, with the reasoning "Extracted from text analysis"
\* and no error marker; a text with the single mention 7/10 yields 7.0.
C6_MeanOfMentions ==
    (/\ parser_pc = "returned"
     /\ ~judgment_text.is_none
     /\ NoStructuredPayload(judgment_text.text)
     /\ MentionPositions(judgment_text.text) # {}) =>
        LET text == judgment_text.text
            n == Cardinality(MentionPositions(text))
            total == MentionTotal(text, MentionPositions(text))
            o == parsed.opinion
        IN  /\ ~parsed.raised
            /\ o.error = NoError
            /\ n * o.overall_score <= total
            /\ total < n * (o.overall_score + 1)
            /\ DOMAIN o.criterion_scores = Criteria
            /\ \A c \in Criteria :
                  /\ o.criterion_scores[c].score = o.overall_score
                  /\ o.criterion_scores[c].reasoning = "Extracted from text analysis"
            /\ text = ExampleText => o.overall_score = 7 * Scale

\* C6 witness: prose with the two mentions 7/10 and 8/10, answered with 7.5.
C6_Witness ==
    /\ parser_pc = "returned"
    /\ judgment_text = TextContent(<<"7/10", "word", "8/10">>)
    /\ parsed.opinion.overall_score = 7 * Scale + 5 * (Scale \div 10)
    /\ parsed.opinion.error = NoError

\* The results in the order of judge_models instead of the order of arrival.
ResultsInSubmissionOrder == [j \in Judges |-> future[j]]

\* C7: the verdict built from the results in their order of arrival has the
\* same overall_score and overall_std and, per criterion, the same mean_score,
\* std_score and consensus_strength as the verdict built from the same results
\* in the order of submission, for every order of arrival.
C7_ArrivalOrderIrrelevant ==
    pc = "done" =>
        LET other == MultiJudgeResult(judge_models, ResultsInSubmissionOrder)
        IN  /\ verdict.overall_score = other.overall_score
            /\ verdict.overall_std = other.overall_std
            /\ DOMAIN verdict.criterion_scores = DOMAIN other.criterion_scores
            /\ \A c \in DOMAIN verdict.criterion_scores :
                  /\ verdict.criterion_scores[c].mean_score
                        = other.criterion_scores[c].mean_score
                  /\ verdict.criterion_scores[c].std_score
                        = other.criterion_scores[c].std_score
                  /\ verdict.criterion_scores[c].consensus_strength
                        = other.criterion_scores[c].consensus_strength

\* C7 witness: a verdict over three results with different overall scores that
\* arrived in an order other than the order of submission.
C7_Witness ==
    /\ pc = "done"
    /\ Len(judge_models) = 3
    /\ Results # ResultsInSubmissionOrder
    /\ Cardinality({Results[i].overall_score : i \in ResultIndexes}) = 3
    /\ verdict.overall_std > 0

\* C8: a failing judge neither cancels nor delays the others: a queued judge
\* can be dispatched whenever fewer than min(number of judges, 5) workers are
\* inside a call, whatever has failed before; and when nothing more can
\* happen every judge other than a silent one has been started and its own
\* result collected.
C8_FailureIsolated ==
    /\ (/\ pc = "collecting"
        /\ work_queue # <<>>
        /\ Cardinality({j \in Judges : phase[j] \in {"calling", "silent"}})
              < (IF Len(judge_models) < 5 THEN Len(judge_models) ELSE 5))
          => ENABLED WorkerStartsCall
    /\ ~SomeStepPossible =>
          \A j \in Judges :
              phase[j] # "silent" =>
                  /\ phase[j] = "collected"
                  /\ call[j].status \in {"content", "exception"}
                  /\ \E i \in 1..Len(individual_results) :
                        /\ individual_results[i] = future[j]
                        /\ individual_results[i].judge_model = judge_models[j]
                  /\ call[j].status = "content" /\ call[j].content = TextContent(FullRecord)
                        => future[j].error = NoError

\* C8 witness: six judges on five workers, one call raised, and every judge's
\* result was collected, the others' without an error.
C8_Witness ==
    /\ pc = "done"
    /\ Len(judge_models) = MaxPoolWorkers + 1
    /\ \E f \in Judges :
          /\ call[f].status = "exception"
          /\ \A j \in Judges \ {f} :
                \E i \in ResultIndexes :
                    Results[i].judge_model = judge_models[j] /\ Results[i].error = NoError

\* C9: no judge dispatch blocks indefinitely: evaluate_text has returned its
\* verdict or a step of the program or of a judge is still possible; a judge
\* that never responds has its call ended by a timeout.
C9_NeverBlocksIndefinitely == pc = "done" \/ SomeStepPossible

\* C10: the opinion of a failed judge carries an error and 5.0 for all
\* criteria, and the judge_count of the verdict counts only the judges whose
\* opinion has no 'error' set.
C10_JudgeCountExcludesFailed ==
    pc = "done" =>
        /\ \A j \in Judges :
              call[j].status = "exception" =>
                  \A i \in ResultIndexes :
                      Results[i].judge_model = judge_models[j]
                          => IsNeutralFailure(Results[i])
        /\ verdict.judge_count
              = Cardinality({i \in ResultIndexes : Results[i].error = NoError})

\* ---------------------------------------------------- consensus numerics
ConsensusDone == pc = "consensus done"
Consensus == verdict.criterion_scores
AllEqual(scores) == \A i, j \in DOMAIN scores : scores[i] = scores[j]

\* C11: over a non-empty list of per-criterion scores, each within [1,10],
\* the consensus_strength lies in [0,1]; when all contributing judges give
\* the same score to a criterion its std_score is 0 and its
\* consensus_strength is 1.
C11_StrengthWithinUnitRange ==
    ConsensusDone =>
        \A c \in DOMAIN Consensus :
            (/\ Consensus[c].individual_scores # <<>>
             /\ \A i \in DOMAIN Consensus[c].individual_scores :
                    InScoreRange(Consensus[c].individual_scores[i]))
            => /\ 0 <= Consensus[c].consensus_strength
               /\ Consensus[c].consensus_strength <= Scale
               /\ AllEqual(Consensus[c].individual_scores) =>
                     /\ Consensus[c].std_score = 0
                     /\ Consensus[c].consensus_strength = Scale

\* Three judges, a criterion all three score alike and a criterion on which
\* the scorers are as far apart as the scale allows.
C11_Witness ==
    /\ ConsensusDone
    /\ Len(individual_results) = 3
    /\ \E c \in DOMAIN Consensus :
          /\ Len(Consensus[c].individual_scores) = 3
          /\ ~AllEqual(Consensus[c].individual_scores)
          /\ Consensus[c].consensus_strength = 0
    /\ \E c \in DOMAIN Consensus :
          /\ Len(Consensus[c].individual_scores) = 2
          /\ AllEqual(Consensus[c].individual_scores)
          /\ Consensus[c].consensus_strength = Scale

SixSevenEight ==
    /\ Len(individual_results) = 3
    /\ {individual_results[i].overall_score : i \in 1..3}
          = {6 * Scale, 7 * Scale, 8 * Scale}
    /\ \A i \in 1..3 : DOMAIN individual_results[i].criterion_scores = Criteria
Near(x, target) == target - 1 <= x /\ x <= target + 1

\* C13: three judges scoring 6.0, 7.0 and 8.0 give the consensus mean 7.0,
\* a standard deviation of about 0.816 (the deviation divides by the number
\* of judges) and a consensus_strength of about 0.883.
C13_PopulationDeviation ==
    (ConsensusDone /\ SixSevenEight) =>
        /\ verdict.overall_score = 7 * Scale
        /\ Near(verdict.overall_std, 816)
        /\ \A c \in DOMAIN Consensus :
              /\ Consensus[c].mean_score = 7 * Scale
              /\ Near(Consensus[c].std_score, 816)
              /\ Near(Consensus[c].consensus_strength, 883)

\* ------------------------------------------------- aggregator statistics
Reported == benchmark_results.called /\ ~benchmark_results.raised
Stats == benchmark_results.sampler_stats
Samplers == DOMAIN benchmark_results.sampler_stats
EffectSize == benchmark_results.effect_sizes
Significance == benchmark_results.statistical_significance
ScoresOf(sampler) == AllScores(Stats[sampler].prompt_stats)
Abs(x) == IF x < 0 THEN -x ELSE x
\* The statistics, pairwise maps and rankings of a result, without its time.
Outcome(results) ==
    <<results.raised, results.samplers, results.sampler_stats,
      results.effect_sizes, results.statistical_significance,
      results.best_sampler_per_prompt, results.most_consistent_sampler,
      results.highest_quality_sampler>>

\* C14: get_enhanced_benchmark_results is idempotent and free of side
\* effects: a call leaves the accumulated samples as they were, and a call
\* that follows another with no add_sample in between returns the same
\* sampler statistics, effect sizes, significance values and rankings.
C14_AggregationIdempotent ==
    [][GetEnhancedBenchmarkResults =>
          /\ samples' = samples
          /\ benchmark_results.called =>
                Outcome(benchmark_results') = Outcome(benchmark_results)]_vars

\* A second call has returned, on samples of two samplers.
C14_Witness ==
    /\ Reported
    /\ clock = MaxClock
    /\ benchmark_results.timestamp = MaxClock
    /\ Len(benchmark_results.samplers) >= 2
    /\ Len(samples) >= 4
    /\ benchmark_results.samples = samples

\* C15: in the computed map the effect size of A against B is the negative
\* of that of B against A, for samplers with at least 2 samples each, and
\* the effect size of a sampler against itself is 0.
C15_EffectSizeAntisymmetric ==
    Reported =>
        \A a \in Samplers :
            Len(ScoresOf(a)) >= 2 =>
                /\ CohensD(ScoresOf(a), ScoresOf(a)) = 0
                /\ \A b \in Samplers \ {a} :
                      Len(ScoresOf(b)) >= 2 =>
                          EffectSize[a][b] = -EffectSize[b][a]

C15_Witness ==
    /\ Reported
    /\ \E a, b \in Samplers :
          /\ a # b
          /\ Len(ScoresOf(a)) >= 2
          /\ Len(ScoresOf(b)) >= 2
          /\ EffectSize[a][b] > 0
          /\ EffectSize[b][a] < 0

\* C16: a group of fewer than 2 samples has the standard deviation 0 and a
\* confidence interval collapsed to its score, its effect size against every
\* other sampler is 0, and so is the effect size of two samplers whose
\* pooled standard deviation is 0; no division fails.
C16_SmallGroupsAreSafe ==
    Reported =>
        \A a \in Samplers :
            /\ \A i \in DOMAIN Stats[a].prompt_stats :
                  LET ps == Stats[a].prompt_stats[i]
                  IN  ps.sample_size < 2 =>
                          /\ ps.std_dev = 0
                          /\ ps.confidence_interval
                                = <<ps.repetition_scores[1], ps.repetition_scores[1]>>
            /\ Stats[a].total_samples < 2 =>
                  /\ Stats[a].overall_std = 0
                  /\ Stats[a].overall_confidence_interval
                        = <<ScoresOf(a)[1], ScoresOf(a)[1]>>
                  /\ \A b \in Samplers \ {a} :
                        EffectSize[a][b] = 0 /\ EffectSize[b][a] = 0
            /\ \A b \in Samplers \ {a} :
                  (Stats[a].overall_std = 0 /\ Stats[b].overall_std = 0)
                      => EffectSize[a][b] = 0

\* A sampler with one sample next to two samplers of constant, different
\* scores.
C16_Witness ==
    /\ Reported
    /\ \E a, b, c \in Samplers :
          /\ Stats[a].total_samples = 1
          /\ Stats[b].total_samples >= 2 /\ Stats[c].total_samples >= 2
          /\ Stats[b].overall_std = 0 /\ Stats[c].overall_std = 0
          /\ Stats[b].overall_mean # Stats[c].overall_mean

\* The pairs of distinct samplers.
SamplerPairs == {pair \in Samplers \X Samplers : pair[1] # pair[2]}

StandardError(a, b) ==
    Sqrt((Stats[a].overall_std * Stats[a].overall_std) \div Stats[a].total_samples
         + (Stats[b].overall_std * Stats[b].overall_std) \div Stats[b].total_samples)
Comparable(pair) ==
    /\ Stats[pair[1]].total_samples >= 2
    /\ Stats[pair[2]].total_samples >= 2
    /\ StandardError(pair[1], pair[2]) > 0
TStatistic(pair) ==
    (Abs(Stats[pair[1]].overall_mean - Stats[pair[2]].overall_mean) * Scale)
        \div StandardError(pair[1], pair[2])

IntervalReturned == interval.returned /\ Len(interval_scores) >= 2
\* mean minus and plus m * std / sqrt(n), m in hundredths
IntervalWith(m) ==
    LET half == (m * ((Stdev(interval_scores) * Scale)
                        \div Sqrt(Len(interval_scores) * Scale * Scale))) \div 100
    IN  <<Mean(interval_scores) - half, Mean(interval_scores) + half>>
Tabulated(n) == n - 1 <= 10

\* C18: the confidence interval of n >= 2 scores is the mean plus and minus
\* m * std / sqrt(n), m being the tabulated t-value for n - 1 degrees of
\* freedom when n - 1 <= 10 and the z-value 1.96 for every larger n.
C18_ZValueBeyondTable ==
    IntervalReturned =>
        <<interval.low, interval.high>>
            = IntervalWith(IF Tabulated(Len(interval_scores))
                           THEN TValues[Len(interval_scores) - 1] ELSE 196)

\* C18 as amended: m is the tabulated t-value when n - 1 <= 10, 2.0 for the
\* larger samples of fewer than 30 scores, and the z-value 1.96 from 30
\* scores on.
C18_TwoBeyondTable ==
    IntervalReturned =>
        <<interval.low, interval.high>>
            = IntervalWith(IF Tabulated(Len(interval_scores))
                           THEN TValues[Len(interval_scores) - 1]
                           ELSE IF Len(interval_scores) < 30 THEN 200 ELSE 196)

\* The interval of exactly 30 scores that are not all equal.
C18_Witness ==
    /\ IntervalReturned
    /\ Len(interval_scores) = 30
    /\ interval.low < interval.high
    /\ IntervalWith(200) # IntervalWith(196)

\* ------------------------------------------------------ prompt consistency
MaxConsistency == 10 * Scale
PromptMeans(sampler) ==
    [i \in 1..Len(Stats[sampler].prompt_stats) |-> Stats[sampler].prompt_stats[i].mean_score]

\* C19: a sampler whose judged samples all have the overall score s has
\* overall_mean s, overall_std 0 and the maximal prompt_consistency; a
\* sampler that covers a single prompt has the maximal prompt_consistency.
C19_UniformSampler ==
    Reported =>
        \A a \in Samplers :
            /\ AllEqual(ScoresOf(a)) =>
                  /\ Stats[a].overall_mean = ScoresOf(a)[1]
                  /\ Stats[a].overall_std = 0
                  /\ Stats[a].prompt_consistency = MaxConsistency
            /\ Stats[a].prompts_covered = 1 =>
                  Stats[a].prompt_consistency = MaxConsistency

\* greedy with two samples scored 8.0 on one prompt, next to a sampler with
\* different scores on its single prompt.
C19_Witness ==
    /\ Reported
    /\ "greedy" \in Samplers
    /\ ScoresOf("greedy") = <<8 * Scale, 8 * Scale>>
    /\ Stats["greedy"].prompts_covered = 1
    /\ \E a \in Samplers :
          /\ Stats[a].prompts_covered = 1
          /\ ~AllEqual(ScoresOf(a))

\* C20: prompt_consistency lies in [0,10] and is strictly decreasing in the
\* dispersion of the per-prompt means: of two samplers, the one whose
\* per-prompt means have the larger standard deviation has the strictly
\* smaller prompt_consistency.
C20_ConsistencyStrictlyDecreasing ==
    Reported =>
        \A a, b \in Samplers :
            /\ 0 <= Stats[a].prompt_consistency
            /\ Stats[a].prompt_consistency <= MaxConsistency
            /\ StdevOrZero(PromptMeans(a)) > StdevOrZero(PromptMeans(b))
                  => Stats[a].prompt_consistency < Stats[b].prompt_consistency

\* ------------------------------------------------------ withheld verdicts
\* The samplers and prompts of the samples that carry a judgment.
JudgedIndexes == {i \in DOMAIN samples : ~samples[i].judgment.is_none}
JudgedSamplers == {samples[i].sampler_name : i \in JudgedIndexes}
JudgedPrompts == {samples[i].prompt : i \in JudgedIndexes}
UnjudgedSamplers == {samples[i].sampler_name : i \in DOMAIN samples} \ JudgedSamplers
BestSampler == benchmark_results.best_sampler_per_prompt
Withheld(error) ==
    [NoBenchmarkResults EXCEPT !.called = TRUE, !.raised = TRUE, !.error = error]

\* C21: get_enhanced_benchmark_results on samples none of which is judged
\* ends in an error and returns no verdict; a call either returns a verdict
\* with every field set or raises and leaves no field of a verdict; the
\* samplers of sampler_stats are the samplers with a judged sample, each with
\* the count of its judged samples, and no sampler without one is a key of a
\* pairwise map or named by a ranking.
C21_NoDataIsExplicit ==
    benchmark_results.called =>
        /\ JudgedSamplers = {} => benchmark_results.raised
        /\ benchmark_results.raised =>
              /\ benchmark_results.error # "none"
              /\ benchmark_results = Withheld(benchmark_results.error)
        /\ ~benchmark_results.raised =>
              /\ Samplers = JudgedSamplers
              /\ Samplers # {}
              /\ \A a \in Samplers :
                    Stats[a].total_samples =
                        Cardinality({i \in JudgedIndexes : samples[i].sampler_name = a})
              /\ DOMAIN EffectSize \subseteq JudgedSamplers
              /\ DOMAIN Significance \subseteq JudgedSamplers
              /\ \A a \in DOMAIN EffectSize : DOMAIN EffectSize[a] \subseteq JudgedSamplers
              /\ \A a \in DOMAIN Significance :
                    DOMAIN Significance[a] \subseteq JudgedSamplers
              /\ DOMAIN BestSampler = JudgedPrompts
              /\ \A p \in DOMAIN BestSampler : BestSampler[p] \notin UnjudgedSamplers
              /\ benchmark_results.most_consistent_sampler \in JudgedSamplers
              /\ benchmark_results.highest_quality_sampler \in JudgedSamplers

\* The results were asked for with two samples added, neither of them judged.
C21_Witness ==
    /\ benchmark_results.called
    /\ benchmark_results.error = "ValueError"
    /\ Len(samples) = 2
    /\ JudgedSamplers = {}
    /\ UnjudgedSamplers = {"min_p"}

\* C22: in a returned verdict best_sampler_per_prompt maps every prompt with
\* a judged sample to a sampler evaluated on it whose mean score on the
\* prompt no sampler exceeds, most_consistent_sampler has the highest
\* prompt_consistency and highest_quality_sampler the highest overall_mean.
MeansOn(sampler, prompt) ==
    {Stats[sampler].prompt_stats[i].mean_score :
        i \in {k \in DOMAIN Stats[sampler].prompt_stats :
                  Stats[sampler].prompt_stats[k].prompt = prompt}}
C22_RankingsNameTheBest ==
    Reported =>
        /\ DOMAIN BestSampler = JudgedPrompts
        /\ \A p \in JudgedPrompts :
              /\ BestSampler[p] \in Samplers
              /\ MeansOn(BestSampler[p], p) # {}
              /\ \A a \in Samplers : \A m \in MeansOn(a, p) :
                    \E best \in MeansOn(BestSampler[p], p) : m <= best
        /\ benchmark_results.most_consistent_sampler \in Samplers
        /\ \A a \in Samplers :
              Stats[a].prompt_consistency
                  <= Stats[benchmark_results.most_consistent_sampler].prompt_consistency
        /\ benchmark_results.highest_quality_sampler \in Samplers
        /\ \A a \in Samplers :
              Stats[a].overall_mean
                  <= Stats[benchmark_results.highest_quality_sampler].overall_mean

\* ----------------------------------------------------- consensus verdicts
\* C23: the aggregator accepts a judgment of either shape: with samples
\* judged by a single judge and samples carrying a multi-judge consensus,
\* get_enhanced_benchmark_results returns a verdict, with the overall
\* statistics of every judged sampler and the statistics of every criterion
\* its judgments score; a consensus judgment never makes the call raise.
C23_BothVerdictShapes ==
    (benchmark_results.called /\ JudgedIndexes # {}) =>
        /\ ~benchmark_results.raised
        /\ \A i \in JudgedIndexes :
              /\ samples[i].sampler_name \in Samplers
              /\ \A k \in DOMAIN samples[i].judgment.criterion_scores :
                    samples[i].judgment.criterion_scores[k].criterion
                        \in DOMAIN Stats[samples[i].sampler_name].criterion_stats

\* C29: every value of the statistical_significance map lies in
\* [0.001, 1.0], and the map is symmetric for every pair of distinct samplers.
C29_SignificanceIsProbability ==
    Reported =>
        \A p \in SamplerPairs :
            /\ 1 <= Significance[p[1]][p[2]]
            /\ Significance[p[1]][p[2]] <= Scale
            /\ Significance[p[1]][p[2]] = Significance[p[2]][p[1]]

\* --------------------------------------------------- judging a results file
ScriptDone == script_pc = "done"
Saved == ScriptDone /\ enhanced_results.saved
Output == enhanced_results.samples
WithJudgment == {k \in DOMAIN Output : ~Output[k].judgment.is_none}
InOutput(sample) == {k \in DOMAIN Output : Output[k].sample_id = sample.sample_id}
Valid == ValidSamples(data)

\* C24: in the written file successfully_judged is the number of output
\* samples that carry a judgment, and judgment_failures the number of valid
\* input samples that no output sample carries a judgment for.
C24_CountsAreTruthful ==
    Saved =>
        /\ enhanced_results.successfully_judged = Cardinality(WithJudgment)
        /\ enhanced_results.judgment_failures =
              Cardinality({i \in DOMAIN Valid : InOutput(Valid[i]) \cap WithJudgment = {}})

\* C25: for every results file the call returns the path of the file it
\* wrote, and no judgment in that file has the key instruction_penalties.
C25_NoInstructionPenalties ==
    ScriptDone =>
        /\ enhanced_results.returned = "path"
        /\ \A k \in WithJudgment :
              "instruction_penalties" \notin Output[k].judgment.keys

\* C26: in multi-judge mode every judgment of the written file is the
\* judgment of the text of the sample that carries it.
C26_JudgmentOfItsOwnSample ==
    (Saved /\ judge_type = "multi_judge") =>
        \A k \in WithJudgment : Output[k].judgment.about = Output[k].sample_id

\* C27: the samples of the written file are the valid input samples, each
\* exactly once.
C27_EveryValidSampleOnce ==
    Saved =>
        /\ Len(Output) = Len(Valid)
        /\ \A i \in DOMAIN Valid : Cardinality(InOutput(Valid[i])) = 1

\* ------------------------------------------------------ the single judge
\* C28: judge_batch returns one result per sample, and result k is either
\* the neutral fallback or holds the scores given to sample k.
C28_ResultPerSampleInOrder ==
    batch_pc = "returned" =>
        /\ Len(all_results) = batch.samples
        /\ \A k \in DOMAIN all_results : all_results[k].about \in {0, k}

\* C30: whenever the response given to _parse_judgment is an object with an
\* overall_score, 5.0 included, the returned overall score is that value.
C30_ProvidedOverallScoreKept ==
    (reply_pc = "returned" /\ reply.kind = "object" /\ reply.has_overall) =>
        /\ ~judgment_result.raised
        /\ judgment_result.result.overall_score = reply.overall_score

====
